---------------------------- MODULE Spec2Model ----------------------------
(***************************************************************************)
(* Model of the documentation pipeline of lostmind-ai-docs:                *)
(*   scripts/docs-automation-v2/enhanced-scan-projects.js                  *)
(*     (the descriptor-driven EnhancedProjectScanner, FileClassifier,      *)
(*      ContentExtractor, NavigationBuilder, Logger)                       *)
(*   selective-project-config.cjs (the descriptor list)                    *)
(*                                                                         *)
(* TEXT.  A JavaScript string is modelled as a sequence of tokens.  A      *)
(* token of length 1 is that character.  A longer token is a run of plain  *)
(* prose copied from a template literal of the source: it holds no line    *)
(* break, no brace, no angle bracket, no digit, does not start or end with *)
(* white space and never directly follows "<"; every pattern of the source *)
(* therefore sees it as ordinary characters.                               *)
(***************************************************************************)
EXTENDS Integers, Sequences, FiniteSets, TLC

NL == "\n"

\* the grave accent (U+0060), which a string of this language cannot hold
Backtick == "U+0060"

WhiteSpace == {" ", NL, "\t", "\r"}

Digits == {"0", "1", "2", "3", "4", "5", "6", "7", "8", "9"}

Letters ==
  {"a", "b", "c", "d", "e", "f", "g", "h", "i", "j", "k", "l", "m",
   "n", "o", "p", "q", "r", "s", "t", "u", "v", "w", "x", "y", "z",
   "A", "B", "C", "D", "E", "F", "G", "H", "I", "J", "K", "L", "M",
   "N", "O", "P", "Q", "R", "S", "T", "U", "V", "W", "X", "Y", "Z"}

\* String.prototype.includes for a single character
Includes(s, c) == \E i \in 1..Len(s) : s[i] = c

\* whether the literal lit occurs in s at position i
MatchAt(s, i, lit) ==
  /\ i >= 1
  /\ i + Len(lit) - 1 <= Len(s)
  /\ \A k \in 1..Len(lit) : s[i + k - 1] = lit[k]

\* String.prototype.includes for a literal of several characters
IncludesLit(s, lit) == \E i \in 1..Len(s) : MatchAt(s, i, lit)

\* first index j >= i with s[j] = c, or Len(s) + 1 when there is none
IndexFrom(s, i, c) ==
  LET hits == {j \in i..Len(s) : s[j] = c}
  IN  IF hits = {} THEN Len(s) + 1 ELSE CHOOSE j \in hits : \A h \in hits : j <= h

\* first index j >= i whose token is not in the set cls, or Len(s) + 1
SkipClass(s, i, cls) ==
  LET hits == {j \in i..Len(s) : s[j] \notin cls}
  IN  IF hits = {} THEN Len(s) + 1 ELSE CHOOSE j \in hits : \A h \in hits : j <= h

Slice(s, a, b) == IF a > b THEN << >> ELSE SubSeq(s, a, b)

\* String.prototype.trim
RECURSIVE TrimLeft(_)
TrimLeft(s) ==
  IF s = << >> THEN << >>
  ELSE IF Head(s) \in WhiteSpace THEN TrimLeft(Tail(s))
  ELSE s

RECURSIVE TrimRight(_)
TrimRight(s) ==
  IF s = << >> THEN << >>
  ELSE IF s[Len(s)] \in WhiteSpace THEN TrimRight(SubSeq(s, 1, Len(s) - 1))
  ELSE s

Trim(s) == TrimRight(TrimLeft(s))

\* String.prototype.split('\n'): the lines of s, at least one
RECURSIVE SplitLines(_)
SplitLines(s) ==
  LET j == IndexFrom(s, 1, NL)
  IN  IF j > Len(s) THEN << s >>
      ELSE << Slice(s, 1, j - 1) >> \o SplitLines(Slice(s, j + 1, Len(s)))

\* Array.prototype.join('\n')
RECURSIVE JoinLines(_)
JoinLines(ls) ==
  IF ls = << >> THEN << >>
  ELSE IF Len(ls) = 1 THEN ls[1]
  ELSE ls[1] \o << NL >> \o JoinLines(Tail(ls))

(***************************************************************************)
(* sanitizeMDXContent, one operator per .replace() of the chain            *)
(***************************************************************************)
DOCTYPE == << "<", "!", "D", "O", "C", "T", "Y", "P", "E" >>

\* .replace(/<!DOCTYPE[^>]*>/g, '')
RECURSIVE StripDoctype(_, _)
StripDoctype(s, i) ==
  IF i > Len(s) THEN << >>
  ELSE LET e == IndexFrom(s, i + Len(DOCTYPE), ">")
       IN  IF MatchAt(s, i, DOCTYPE) /\ e <= Len(s)
           THEN StripDoctype(s, e + 1)
           ELSE << s[i] >> \o StripDoctype(s, i + 1)

\* .replace(/<br\s*\/?>/g, '<br/>')
RECURSIVE NormalizeBr(_, _)
NormalizeBr(s, i) ==
  IF i > Len(s) THEN << >>
  ELSE LET j == SkipClass(s, i + 3, WhiteSpace)
           k == IF j <= Len(s) /\ s[j] = "/" THEN j + 1 ELSE j
       IN  IF MatchAt(s, i, << "<", "b", "r" >>) /\ k <= Len(s) /\ s[k] = ">"
           THEN << "<", "b", "r", "/", ">" >> \o NormalizeBr(s, k + 1)
           ELSE << s[i] >> \o NormalizeBr(s, i + 1)

\* .replace(/<([a-zA-Z][a-zA-Z0-9]*)\s*(?![^>]*\/>)[^>]*>/g,
\*          (match, tag) => match.includes('/') ? match : `${match}</${tag}>`)
\* n: end of the tag name, p: end of the white space, e: the first ">".
\* The lookahead (?![^>]*\/>) rejects exactly when "/" stands right before
\* that ">" at or after p; backtracking the name or the white space moves p
\* left and cannot turn a rejection into a match.
RECURSIVE CloseTags(_, _)
CloseTags(s, i) ==
  IF i > Len(s) THEN << >>
  ELSE LET n == SkipClass(s, i + 2, Letters \cup Digits)
           p == SkipClass(s, n, WhiteSpace)
           e == IndexFrom(s, p, ">")
           isTag == /\ s[i] = "<"
                    /\ i + 1 <= Len(s)
                    /\ s[i + 1] \in Letters
                    /\ e <= Len(s)
                    /\ ~(e - 1 >= p /\ s[e - 1] = "/")
           match == Slice(s, i, e)
           tag == Slice(s, i + 1, n - 1)
       IN  IF isTag
           THEN (IF Includes(match, "/") THEN match
                 ELSE match \o << "<", "/" >> \o tag \o << ">" >>)
                \o CloseTags(s, e + 1)
           ELSE << s[i] >> \o CloseTags(s, i + 1)

\* .replace(/\{([^}]*[0-9]+[^}]*)\}/g, (match, content) => `{/* ${content} */}`)
RECURSIVE CommentNumbered(_, _)
CommentNumbered(s, i) ==
  IF i > Len(s) THEN << >>
  ELSE LET e == IndexFrom(s, i + 1, "}")
           hit == /\ s[i] = "{"
                  /\ e <= Len(s)
                  /\ \E k \in (i + 1)..(e - 1) : s[k] \in Digits
       IN  IF hit
           THEN << "{", "/", "*", " " >> \o Slice(s, i + 1, e - 1)
                  \o << " ", "*", "/", "}" >> \o CommentNumbered(s, e + 1)
           ELSE << s[i] >> \o CommentNumbered(s, i + 1)

\* where $ matches under the m flag: the end of the input or before a line
\* terminator
LineTerminators == {NL, "\r"}

IsLineEnd(s, j) == j = Len(s) + 1 \/ (j <= Len(s) /\ s[j] \in LineTerminators)

\* the largest j in lo..hi with IsLineEnd(s, j), or 0
RECURSIVE LastLineEnd(_, _, _)
LastLineEnd(s, lo, hi) ==
  IF hi < lo THEN 0
  ELSE IF IsLineEnd(s, hi) THEN hi
  ELSE LastLineEnd(s, lo, hi - 1)

\* .replace(/\{[^}]*$/gm, '')
\* [^}]* is greedy and crosses line breaks: the match runs from "{" to the
\* last line end before the next "}" (or before the end of the input).
RECURSIVE RemoveUnclosed(_, _)
RemoveUnclosed(s, i) ==
  IF i > Len(s) THEN << >>
  ELSE LET e == IndexFrom(s, i + 1, "}")
           j == LastLineEnd(s, i + 1, e)
       IN  IF s[i] = "{" /\ j > 0
           THEN RemoveUnclosed(s, j)
           ELSE << s[i] >> \o RemoveUnclosed(s, i + 1)

DASHES == << "-", "-", "-" >>

\* first index m >= i where "\n---" starts, or Len(s) + 1
FindClose(s, i) ==
  LET hits == {m \in i..Len(s) : MatchAt(s, m, << NL >> \o DASHES)}
  IN  IF hits = {} THEN Len(s) + 1 ELSE CHOOSE m \in hits : \A h \in hits : m <= h

\* /---\s*\n([\s\S]*?)\n---/ anchored at i.  \s* is greedy and gives back one
\* character at a time: k runs down from b over the white space after "---"
\* and stops at the first line break after which a closing "\n---" is found
\* (the lazy group takes the nearest one).  The result is << k, m >>: the
\* line break that ends the opening line and the start of the closing
\* "\n---", or << 0, 0 >> when there is no match at i.
RECURSIVE FenceFrom(_, _, _)
FenceFrom(s, a, k) ==
  IF k < a THEN << 0, 0 >>
  ELSE IF s[k] = NL /\ FindClose(s, k + 1) <= Len(s)
       THEN << k, FindClose(s, k + 1) >>
  ELSE FenceFrom(s, a, k - 1)

FenceAt(s, i) ==
  IF MatchAt(s, i, DASHES)
  THEN FenceFrom(s, i + 3, SkipClass(s, i + 3, WhiteSpace) - 1)
  ELSE << 0, 0 >>

\* where ^ matches: the start of the input, and under the m flag the start of
\* every line
IsLineStart(s, i, multiline) ==
  i = 1 \/ (multiline /\ i > 1 /\ s[i - 1] \in LineTerminators)

\* the first i >= from where /^---\s*\n([\s\S]*?)\n---/ matches, or 0
FirstFence(s, from, multiline) ==
  LET hits == {i \in from..Len(s) : IsLineStart(s, i, multiline) /\ FenceAt(s, i)[1] > 0}
  IN  IF hits = {} THEN 0 ELSE CHOOSE i \in hits : \A h \in hits : i <= h

\* the capture group of the frontmatter pattern matched at i
FenceYaml(s, i) == Slice(s, FenceAt(s, i)[1] + 1, FenceAt(s, i)[2] - 1)

HasTemplateSyntax(line) ==
  IncludesLit(line, << "{", "{" >>) \/ IncludesLit(line, << "}", "}" >>)

\* yaml.split('\n').filter(line => !line.includes('{{') && !line.includes('}}')).join('\n')
CleanYaml(yaml) ==
  JoinLines(SelectSeq(SplitLines(yaml), LAMBDA line : ~HasTemplateSyntax(line)))

\* .replace(/^---\s*\n([\s\S]*?)\n---/m, (match, yaml) => `---\n${cleanYaml}\n---`)
\* The pattern has no g flag: only the first match is replaced.
CleanFrontmatter(s) ==
  LET i == FirstFence(s, 1, TRUE)
  IN  IF i = 0 THEN s
      ELSE Slice(s, 1, i - 1)
             \o DASHES \o << NL >> \o CleanYaml(FenceYaml(s, i)) \o << NL >> \o DASHES
             \o Slice(s, FenceAt(s, i)[2] + 4, Len(s))

\* EnhancedProjectScanner.sanitizeMDXContent
sanitizeMDXContent(content) ==
  IF content = << >> THEN << >>
  ELSE Trim(CleanFrontmatter(RemoveUnclosed(CommentNumbered(CloseTags(
         NormalizeBr(StripDoctype(content, 1), 1), 1), 1), 1)))

(***************************************************************************)
(* path and string helpers                                                 *)
(***************************************************************************)
UpperCase ==
  << "A", "B", "C", "D", "E", "F", "G", "H", "I", "J", "K", "L", "M",
     "N", "O", "P", "Q", "R", "S", "T", "U", "V", "W", "X", "Y", "Z" >>

LowerCase ==
  << "a", "b", "c", "d", "e", "f", "g", "h", "i", "j", "k", "l", "m",
     "n", "o", "p", "q", "r", "s", "t", "u", "v", "w", "x", "y", "z" >>

LowerChar(c) ==
  IF \E i \in 1..26 : UpperCase[i] = c
  THEN LowerCase[CHOOSE i \in 1..26 : UpperCase[i] = c]
  ELSE c

UpperChar(c) ==
  IF \E i \in 1..26 : LowerCase[i] = c
  THEN UpperCase[CHOOSE i \in 1..26 : LowerCase[i] = c]
  ELSE c

\* String.prototype.toLowerCase
ToLowerCase(s) == [i \in 1..Len(s) |-> LowerChar(s[i])]

\* the largest index j <= i with s[j] = c, or 0
RECURSIVE LastIndex(_, _, _)
LastIndex(s, i, c) ==
  IF i < 1 THEN 0
  ELSE IF s[i] = c THEN i
  ELSE LastIndex(s, i - 1, c)

\* path.basename(p)
Basename(p) == Slice(p, LastIndex(p, Len(p), "/") + 1, Len(p))

\* path.extname(p): from the last "." of the base name, "" when there is none
\* or when it is the base name's first character
Extname(p) ==
  LET b == Basename(p)
      d == LastIndex(b, Len(b), ".")
  IN  IF d <= 1 THEN << >> ELSE Slice(b, d, Len(b))

\* path.basename(p, ext)
BasenameNoExt(p, ext) ==
  LET b == Basename(p)
  IN  IF ext # << >> /\ Len(b) > Len(ext) /\ MatchAt(b, Len(b) - Len(ext) + 1, ext)
      THEN Slice(b, 1, Len(b) - Len(ext))
      ELSE b

(***************************************************************************)
(* FileClassifier                                                          *)
(***************************************************************************)
ClassifyByFilename(filename) ==
  IF IncludesLit(filename, << "r", "e", "a", "d", "m", "e" >>) THEN "readme"
  ELSE IF IncludesLit(filename, << "c", "l", "a", "u", "d", "e" >>) THEN "ai-context"
  ELSE IF IncludesLit(filename, << "c", "h", "a", "n", "g", "e", "l", "o", "g" >>) \/ IncludesLit(filename, << "c", "h", "a", "n", "g", "e", "s" >>)
       THEN "changelog"
  ELSE IF IncludesLit(filename, << "a", "p", "i" >>) \/ IncludesLit(filename, << "r", "e", "f", "e", "r", "e", "n", "c", "e" >>)
       THEN "api-reference"
  ELSE IF IncludesLit(filename, << "g", "u", "i", "d", "e" >>) \/ IncludesLit(filename, << "t", "u", "t", "o", "r", "i", "a", "l" >>)
       THEN "guide"
  ELSE IF IncludesLit(filename, << "q", "u", "i", "c", "k", "s", "t", "a", "r", "t" >>) \/ IncludesLit(filename, << "g", "e", "t", "t", "i", "n", "g", "-", "s", "t", "a", "r", "t", "e", "d" >>)
       THEN "quickstart"
  ELSE IF IncludesLit(filename, << "a", "r", "c", "h", "i", "t", "e", "c", "t", "u", "r", "e" >>) \/ IncludesLit(filename, << "d", "e", "s", "i", "g", "n" >>)
       THEN "architecture"
  ELSE IF IncludesLit(filename, << "d", "e", "p", "l", "o", "y", "m", "e", "n", "t" >>) \/ IncludesLit(filename, << "d", "e", "p", "l", "o", "y" >>)
       THEN "deployment"
  ELSE IF IncludesLit(filename, << "d", "e", "v", "e", "l", "o", "p", "m", "e", "n", "t" >>) \/ IncludesLit(filename, << "d", "e", "v" >>)
       THEN "development"
  ELSE IF IncludesLit(filename, << "s", "e", "c", "u", "r", "i", "t", "y" >>) \/ IncludesLit(filename, << "a", "u", "t", "h" >>)
       THEN "security"
  ELSE IF IncludesLit(filename, << "m", "i", "g", "r", "a", "t", "i", "o", "n" >>) \/ IncludesLit(filename, << "u", "p", "g", "r", "a", "d", "e" >>)
       THEN "migration"
  ELSE "none"

ClassifyByContent(contentLower) ==
  IF IncludesLit(contentLower, << "#", " ", "a", "p", "i" >>) \/ IncludesLit(contentLower, << "#", "#", " ", "e", "n", "d", "p", "o", "i", "n", "t", "s" >>)
  THEN "api-reference"
  ELSE IF IncludesLit(contentLower, << "#", " ", "q", "u", "i", "c", "k", " ", "s", "t", "a", "r", "t" >>)
          \/ IncludesLit(contentLower, << "#", "#", " ", "g", "e", "t", "t", "i", "n", "g", " ", "s", "t", "a", "r", "t", "e", "d" >>)
       THEN "quickstart"
  ELSE IF IncludesLit(contentLower, << "#", " ", "a", "r", "c", "h", "i", "t", "e", "c", "t", "u", "r", "e" >>)
          \/ IncludesLit(contentLower, << "#", "#", " ", "s", "y", "s", "t", "e", "m", " ", "d", "e", "s", "i", "g", "n" >>)
       THEN "architecture"
  ELSE "none"

ClassifyByExtension(filename, ext) ==
  IF ext \in {<< ".", "m", "d" >>, << ".", "m", "d", "x" >>} THEN "documentation"
  ELSE IF ext \in {<< ".", "j", "s" >>, << ".", "t", "s" >>, << ".", "p", "y" >>, << ".", "j", "a", "v", "a" >>} THEN "code"
  ELSE IF filename = << "p", "a", "c", "k", "a", "g", "e", ".", "j", "s", "o", "n" >> THEN "config"
  ELSE IF ext \in {<< ".", "j", "s", "o", "n" >>, << ".", "y", "a", "m", "l" >>, << ".", "y", "m", "l" >>} /\ IncludesLit(filename, << "a", "p", "i" >>)
       THEN "api-spec"
  ELSE "misc"

\* a classifier that looks at the content before the file name
ClassifyContentFirst(filePath, content) ==
  LET filename == ToLowerCase(Basename(filePath))
      ext == ToLowerCase(Extname(filePath))
  IN  IF ClassifyByContent(ToLowerCase(content)) # "none"
      THEN ClassifyByContent(ToLowerCase(content))
      ELSE IF ClassifyByFilename(filename) # "none" THEN ClassifyByFilename(filename)
      ELSE ClassifyByExtension(filename, ext)

\* FileClassifier.classify(filePath, content)
classify(filePath, content) ==
  LET filename == ToLowerCase(Basename(filePath))
      ext == ToLowerCase(Extname(filePath))
  IN  IF ClassifyByFilename(filename) # "none" THEN ClassifyByFilename(filename)
      ELSE IF ClassifyByContent(ToLowerCase(content)) # "none"
           THEN ClassifyByContent(ToLowerCase(content))
      ELSE ClassifyByExtension(filename, ext)

\* FileClassifier.getNavigationOrder(type): order[type] || 50
getNavigationOrder(type) ==
  CASE type = "readme" -> 1
    [] type = "quickstart" -> 2
    [] type = "guide" -> 3
    [] type = "api-reference" -> 4
    [] type = "architecture" -> 5
    [] type = "development" -> 6
    [] type = "deployment" -> 7
    [] type = "security" -> 8
    [] type = "migration" -> 9
    [] type = "changelog" -> 10
    [] type = "ai-context" -> 11
    [] type = "documentation" -> 12
    [] type = "misc" -> 99
    [] OTHER -> 50

(***************************************************************************)
(* JavaScript values that may be missing                                   *)
(***************************************************************************)
\* the value of a property the object does not have
Undefined == [undefined |-> TRUE]

\* a string value, wrapped so that it can be compared with Undefined
Str(text) == [str |-> text]

\* obj[field]
Get(obj, field) == IF field \in DOMAIN obj THEN Str(obj[field]) ELSE Undefined

\* `${v}` in a template literal
Interpolate(v) == IF v = Undefined THEN << "undefined" >> ELSE v.str

\* Array.prototype.find: the first element satisfying P, or Undefined
Find(arr, P(_)) ==
  IF \E i \in 1..Len(arr) : P(arr[i])
  THEN arr[CHOOSE i \in 1..Len(arr) : P(arr[i]) /\ \A k \in 1..(i - 1) : ~P(arr[k])]
  ELSE Undefined

(***************************************************************************)
(* path.join / path.relative on the relative paths the scanner builds      *)
(***************************************************************************)
\* path.normalize: a leading "./" is dropped
PathNormalize(p) == IF MatchAt(p, 1, << ".", "/" >>) THEN Slice(p, 3, Len(p)) ELSE p

\* path.join(a, b) for a b without "." or ".." segments
PathJoin(a, b) == PathNormalize(a \o << "/" >> \o b)

\* path.dirname(p)
Dirname(p) ==
  LET k == LastIndex(p, Len(p), "/")
  IN  IF k = 0 THEN << "." >> ELSE IF k = 1 THEN << "/" >> ELSE Slice(p, 1, k - 1)

\* path.join(dir, '../' + name)
PathJoinUp(dir, name) == PathJoin(Dirname(PathNormalize(dir)), name)

\* path.relative(from, to) for a target below from
PathRelative(from, to) ==
  LET f == PathNormalize(from) \o << "/" >>
      t == PathNormalize(to)
  IN  IF MatchAt(t, 1, f) THEN Slice(t, Len(f) + 1, Len(t)) ELSE t

\* CONFIG.outputDir
OutputDir == << ".", "/", "a", "p", "p", "s", "/", "d", "o", "c", "s", "/", "p", "r", "o", "j", "e", "c", "t", "s" >>

(***************************************************************************)
(* Generated content                                                       *)
(***************************************************************************)
KnownDocumentTypes == {"introduction", "readme", "architecture", "development"}

\* documentType.charAt(0).toUpperCase() + documentType.slice(1)
Capitalize(documentType) ==
  CASE documentType = "introduction" -> "Introduction"
    [] documentType = "readme" -> "Readme"
    [] documentType = "architecture" -> "Architecture"
    [] documentType = "development" -> "Development"
    [] OTHER -> documentType

\* String.prototype.replace(a, b) with string arguments: the first occurrence
RECURSIVE ReplaceFirst(_, _, _, _)
ReplaceFirst(s, i, a, b) ==
  IF i > Len(s) THEN << >>
  ELSE IF MatchAt(s, i, a) THEN b \o Slice(s, i + Len(a), Len(s))
  ELSE << s[i] >> \o ReplaceFirst(s, i + 1, a, b)

\* one line of Object.entries(frontmatter).map(([key, value]) => `${key}: "${value}"`)
FrontmatterLine(key, value) == << key, ":", " ", "\"" >> \o value \o << "\"" >>

\* EnhancedProjectScanner.generateCleanFrontmatter
generateCleanFrontmatter(project, documentType, source, date) ==
  LET base ==
        << FrontmatterLine("title",
             project.displayName \o << " ", "-", " ", Capitalize(documentType) >>),
           FrontmatterLine("description",
             << documentType, " documentation for " >> \o project.displayName),
           FrontmatterLine("category", project.category),
           FrontmatterLine("lastUpdated", date),
           FrontmatterLine("project", Interpolate(Get(project, "id"))) >>
      entries ==
        IF source # Undefined
        THEN Append(base, FrontmatterLine("sourceFile", source.relativePath))
        ELSE base
  IN  DASHES \o << NL >> \o JoinLines(entries) \o << NL >> \o DASHES

IsReadmeFile(f) == IncludesLit(ToLowerCase(f.relativePath), << "r", "e", "a", "d", "m", "e" >>)

IsArchitectureFile(f) ==
  \/ f.classification = "architecture"
  \/ IncludesLit(ToLowerCase(f.relativePath), << "a", "r", "c", "h", "i", "t", "e", "c", "t", "u", "r", "e" >>)

IsDevelopmentFile(f) ==
  \/ f.classification = "development"
  \/ IncludesLit(ToLowerCase(f.relativePath), << "d", "e", "v", "e", "l", "o", "p", "m", "e", "n", "t" >>)

\* content.split('\n').slice(0, 3).join('\n')
FirstThreeLines(content) ==
  LET ls == SplitLines(content)
  IN  JoinLines(SubSeq(ls, 1, IF Len(ls) < 3 THEN Len(ls) ELSE 3))

\* project.category.replace('-', ' ')
CategoryWords(project) == ReplaceFirst(project.category, 1, << "-" >>, << " " >>)

\* EnhancedProjectScanner.generateIntroductionContent
generateIntroductionContent(project, files, date) ==
  LET readmeFile == Find(files, IsReadmeFile)
      description ==
        IF readmeFile # Undefined
        THEN FirstThreeLines(readmeFile.content)
        ELSE project.displayName \o << " is a professional project in the " >>
               \o project.category \o << " category." >>
      developmentLink ==
        IF \E i \in 1..Len(project.documentTypes) : project.documentTypes[i] = "development"
        THEN << "-", " ", "[", "Development", "]", "(", ".", "/", "development", ")",
                " - Development setup and guidelines" >>
        ELSE << >>
  IN  << "#", " " >> \o project.displayName \o << NL, NL >>
      \o sanitizeMDXContent(description) \o << NL, NL >>
      \o << "#", "#", " ", "Overview", NL, NL >>
      \o << "This project is part of the LostMind AI ecosystem and represents our work in " >>
      \o CategoryWords(project) \o << ".", NL, NL >>
      \o << "#", "#", " ", "Navigation", NL, NL >>
      \o << "-", " ", "[", "README", "]", "(", ".", "/", "readme", ")",
            " - Complete project documentation", NL >>
      \o << "-", " ", "[", "Architecture", "]", "(", ".", "/", "architecture", ")",
            " - Technical architecture details", NL >>
      \o developmentLink \o << NL, NL >>
      \o << "#", "#", " ", "Project Details", NL, NL >>
      \o << "-", " ", "**Category**: " >> \o project.category \o << NL >>
      \o << "-", " ", "**Priority**: " >> \o project.priority \o << NL >>
      \o << "-", " ", "**Scan Strategy**: " >> \o project.scanStrategy \o << NL >>
      \o << "-", " ", "**Last Updated**: " >> \o date \o << NL, NL >>
      \o DASHES \o << NL, NL >>
      \o << "*This documentation was automatically generated from project sources.*" >>

\* EnhancedProjectScanner.generateDefaultReadme
generateDefaultReadme(project) ==
  << "#", " " >> \o project.displayName \o << NL, NL >>
  \o << "Welcome to " >> \o project.displayName
  \o << ", a key component of the LostMind AI ecosystem.", NL, NL >>
  \o << "#", "#", " ", "About", NL, NL >>
  \o << "This project focuses on " >> \o CategoryWords(project)
  \o << " and is maintained as part of our professional development infrastructure.",
        NL, NL >>
  \o << "#", "#", " ", "Status", NL, NL >>
  \o << "-", " ", "**Project Category**: " >> \o project.category \o << NL >>
  \o << "-", " ", "**Priority Level**: " >> \o project.priority \o << NL >>
  \o << "-", " ", "**Documentation Strategy**: " >> \o project.scanStrategy \o << NL, NL >>
  \o << "#", "#", " ", "Getting Started", NL, NL >>
  \o << "Please refer to the source project for detailed setup and usage instructions.",
        NL, NL >>
  \o << "#", "#", " ", "Support", NL, NL >>
  \o << "For questions and support, please contact the LostMind AI team.", NL, NL >>
  \o DASHES \o << NL, NL >>
  \o << "*Note: This is auto-generated documentation. Source README file was not found at the expected location.*" >>

\* EnhancedProjectScanner.generateDefaultArchitecture
generateDefaultArchitecture(project) ==
  << "#", " ", "Architecture Overview", NL, NL >>
  \o << "#", "#", " " >> \o project.displayName \o << " ", "Architecture", NL, NL >>
  \o << "This document outlines the architectural design and technical decisions for " >>
  \o project.displayName \o << ".", NL, NL >>
  \o << "#", "#", " ", "System Overview", NL, NL >>
  \o project.displayName \o << " is designed as a " >> \o CategoryWords(project)
  \o << " solution with focus on scalability and maintainability.", NL, NL >>
  \o << "#", "#", " ", "Key Components", NL, NL >>
  \o << "-", " ", "**Core Infrastructure**: Primary application logic", NL >>
  \o << "-", " ", "**Data Layer**: Information processing and storage", NL >>
  \o << "-", " ", "**Integration Layer**: External service connections", NL >>
  \o << "-", " ", "**Presentation Layer**: User interface and API endpoints", NL, NL >>
  \o << "#", "#", " ", "Technical Stack", NL, NL >>
  \o << "Details about the technical implementation are available in the source project documentation.",
        NL, NL >>
  \o << "#", "#", " ", "Design Decisions", NL, NL >>
  \o << "Architecture decisions are driven by:", NL >>
  \o << "-", " ", "Performance requirements", NL >>
  \o << "-", " ", "Scalability needs", NL >>
  \o << "-", " ", "Maintainability goals", NL >>
  \o << "-", " ", "Integration capabilities", NL, NL >>
  \o DASHES \o << NL, NL >>
  \o << "*Note: This is auto-generated architecture documentation. Source architecture files were not found.*" >>

\* EnhancedProjectScanner.generateDefaultDevelopment
generateDefaultDevelopment(project) ==
  << "#", " ", "Development Guide", NL, NL >>
  \o << "#", "#", " " >> \o project.displayName \o << " ", "Development", NL, NL >>
  \o << "This guide covers development setup and workflow for " >>
  \o project.displayName \o << ".", NL, NL >>
  \o << "#", "#", " ", "Prerequisites", NL, NL >>
  \o << "Please refer to the source project for specific prerequisites and requirements.",
        NL, NL >>
  \o << "#", "#", " ", "Setup", NL, NL >>
  \o << "1", ".", " ", "Clone the repository", NL >>
  \o << "2", ".", " ", "Install dependencies", NL >>
  \o << "3", ".", " ", "Configure environment", NL >>
  \o << "4", ".", " ", "Run development server", NL, NL >>
  \o << "#", "#", " ", "Development Workflow", NL, NL >>
  \o << "Standard development practices apply:", NL >>
  \o << "-", " ", "Feature branch workflow", NL >>
  \o << "-", " ", "Code review process", NL >>
  \o << "-", " ", "Testing requirements", NL >>
  \o << "-", " ", "Documentation updates", NL, NL >>
  \o << "#", "#", " ", "Contributing", NL, NL >>
  \o << "Contributions are welcome. Please follow the established coding standards and testing procedures.",
        NL, NL >>
  \o DASHES \o << NL, NL >>
  \o << "*Note: This is auto-generated development documentation. Source development files were not found.*" >>

\* EnhancedProjectScanner.validateMDXSyntax: true when no issue is found.
\* The open/close tag count only writes a debug line; no statement of the
\* try block can throw for a string argument.
validateMDXSyntax(content) ==
  LET unclosed == Includes(content, "{") /\ ~Includes(content, "}")
      doctype == IncludesLit(content, DOCTYPE)
      i == FirstFence(content, 1, FALSE)
      template == i = 1 /\ HasTemplateSyntax(FenceYaml(content, 1))
  IN  ~(unclosed \/ doctype \/ template)

(***************************************************************************)
(* NavigationBuilder                                                       *)
(***************************************************************************)
\* insertion of f into a list sorted by navigation order, after every element
\* that does not sort after it (Array.prototype.sort is stable)
RECURSIVE InsertByOrder(_, _)
InsertByOrder(sorted, f) ==
  IF sorted = << >> THEN << f >>
  ELSE IF getNavigationOrder(Head(sorted).classification)
            - getNavigationOrder(f.classification) > 0
       THEN << f >> \o sorted
  ELSE << Head(sorted) >> \o InsertByOrder(Tail(sorted), f)

\* faulty variant of SortByOrder: a builder that keeps the given order
KeepOrder(fs) == fs

\* files.sort((a, b) => order(a.classification) - order(b.classification))
RECURSIVE SortByOrder(_)
SortByOrder(fs) ==
  IF fs = << >> THEN << >>
  ELSE InsertByOrder(SortByOrder(SubSeq(fs, 1, Len(fs) - 1)), fs[Len(fs)])

\* the filter of NavigationBuilder.addProject
IsNavigable(file) == file.classification # "code" /\ file.classification # "misc"

NavigationEntry(file) ==
  [title |-> Get(file, "title"),
   path |-> Get(file, "outputPath"),
   category |-> file.classification]

\* the value NavigationBuilder.addProject stores under projectName
ProjectNavigation(projectName, fs) ==
  LET sortedFiles == SortByOrder(SelectSeq(fs, IsNavigable))
  IN  [name |-> projectName,
       files |-> [k \in 1..Len(sortedFiles) |-> NavigationEntry(sortedFiles[k])]]

\* faulty variant of addProject: a builder that drops a project without pages
DropEmptyProject(nav, projectName, fs) ==
  IF SelectSeq(fs, IsNavigable) = << >> THEN nav
  ELSE Append(nav, ProjectNavigation(projectName, fs))

\* NavigationBuilder.addProject: this.navigation[projectName] = ...; an object
\* keeps its keys in insertion order and an existing key keeps its place
addProject(nav, projectName, fs) ==
  IF \E k \in 1..Len(nav) : nav[k].name = projectName
  THEN [k \in 1..Len(nav) |->
          IF nav[k].name = projectName THEN ProjectNavigation(projectName, fs) ELSE nav[k]]
  ELSE Append(nav, ProjectNavigation(projectName, fs))

\* file.path.replace('.mdx', '').replace('./apps/docs/', '')
PagePath(p) ==
  ReplaceFirst(ReplaceFirst(p, 1, << ".", "m", "d", "x" >>, << >>), 1, << ".", "/", "a", "p", "p", "s", "/", "d", "o", "c", "s", "/" >>, << >>)

\* generateMintlifyConfig reads file.path.replace: a TypeError when path is
\* undefined
MintlifyConfigThrows(nav) ==
  \E k \in 1..Len(nav) : \E m \in 1..Len(nav[k].files) : nav[k].files[m].path = Undefined

\* NavigationBuilder.generateMintlifyConfig
generateMintlifyConfig(nav) ==
  [navigation |->
     [k \in 1..Len(nav) |->
        [group |-> nav[k].name,
         pages |-> [m \in 1..Len(nav[k].files) |-> PagePath(nav[k].files[m].path.str)]]]]

(***************************************************************************)
(* The descriptor list (selective-project-config.cjs) and the source trees *)
(***************************************************************************)
\* the longest descriptor list of a run
MaxProjects == 2

ProjectIds == {"p1", "p2", "p3"}

\* one entry of PROJECT_CONFIG; priority is held as its decimal text
ProjectConfig(id) ==
  CASE id = "p1" ->
         [id |-> "p1", displayName |-> << "P", "1" >>, sourcePath |-> << "/", "t", "m", "p", "/", "p", "1" >>,
          outputPath |-> << ".", "/", "a", "p", "p", "s", "/", "d", "o", "c", "s", "/", "p", "r", "o", "j", "e", "c", "t", "s", "/", "p", "1" >>,
          category |-> << "c", "o", "r", "e", "-", "p", "l", "a", "t", "f", "o", "r", "m", "s" >>, priority |-> << "1" >>,
          documentTypes |-> << "introduction", "readme", "architecture", "development" >>,
          scanStrategy |-> << "comprehensive" >>,
          primaryFiles |-> << << "R", "E", "A", "D", "M", "E", ".", "m", "d" >>, << "C", "L", "A", "U", "D", "E", ".", "m", "d" >>, << "d", "o", "c", "s", "/", "*", "*", "/", "*", ".", "m", "d" >> >>,
          skipPatterns |-> << << "n", "o", "d", "e", "_", "m", "o", "d", "u", "l", "e", "s" >> >>]
    [] id = "p2" ->
         [id |-> "p2", displayName |-> << "P", "2" >>, sourcePath |-> << "/", "t", "m", "p", "/", "p", "2" >>,
          outputPath |-> << ".", "/", "a", "p", "p", "s", "/", "d", "o", "c", "s", "/", "p", "r", "o", "j", "e", "c", "t", "s", "/", "p", "2" >>,
          category |-> << "p", "r", "o", "p", "t", "e", "c", "h", "-", "s", "o", "l", "u", "t", "i", "o", "n", "s" >>, priority |-> << "2" >>,
          documentTypes |-> << "readme", "architecture" >>,
          scanStrategy |-> << "selective" >>,
          primaryFiles |-> << << "R", "E", "A", "D", "M", "E", ".", "m", "d" >>, << "d", "o", "c", "s", "/", "D", "E", "S", "I", "G", "N", ".", "m", "d" >>, << "d", "o", "c", "s" >> >>,
          skipPatterns |-> << << ".", "D", "S", "_", "S", "t", "o", "r", "e" >> >>]
    [] id = "p3" ->
         [id |-> "p3", displayName |-> << "P", "3" >>, sourcePath |-> << "/", "t", "m", "p", "/", "p", "3" >>,
          outputPath |-> << ".", "/", "a", "p", "p", "s", "/", "d", "o", "c", "s", "/", "p", "r", "o", "j", "e", "c", "t", "s", "/", "p", "3" >>,
          category |-> << "a", "i", "-", "d", "e", "v", "e", "l", "o", "p", "m", "e", "n", "t", "-", "t", "o", "o", "l", "s" >>, priority |-> << "3" >>,
          documentTypes |-> << "readme", "changelog" >>,
          scanStrategy |-> << "selective" >>,
          primaryFiles |-> << << "b", "a", "c", "k", "u", "p", "/", "R", "E", "A", "D", "M", "E", ".", "m", "d" >>, << "R", "E", "A", "D", "M", "E", ".", "m", "d" >> >>,
          skipPatterns |-> << << "b", "a", "c", "k", "u", "p" >> >>]

\* the descriptor lists of a run: distinct descriptors, at most MaxProjects
RECURSIVE ConfigLists(_)
ConfigLists(n) ==
  IF n = 0 THEN {<< >>}
  ELSE ConfigLists(n - 1)
         \cup {Append(l, ProjectConfig(id)) :
                 l \in {x \in ConfigLists(n - 1) : Len(x) = n - 1},
                 id \in ProjectIds}

DistinctIds(l) == \A a, b \in 1..Len(l) : a # b => l[a].id # l[b].id

Configs == {l \in ConfigLists(MaxProjects) : DistinctIds(l)}

NoFiles == [p \in {} |-> << >>]

\* the source trees a project root may hold: dirs, and files with content
SourceTrees(id) ==
  CASE id = "p1" ->
         {[dirs |-> {}, files |-> NoFiles],
          [dirs |-> {<< "/", "t", "m", "p", "/", "p", "1" >>},
           files |-> (<< "/", "t", "m", "p", "/", "p", "1", "/", "R", "E", "A", "D", "M", "E", ".", "m", "d" >> :> << "#", " ", "P", "1", NL, NL, "A", " ", "s", "a", "m", "p", "l", "e", " ", "p", "r", "o", "j", "e", "c", "t", "." >>)],
          [dirs |-> {<< "/", "t", "m", "p", "/", "p", "1" >>},
           files |-> (<< "/", "t", "m", "p", "/", "p", "1", "/", "R", "E", "A", "D", "M", "E", ".", "m", "d" >> :> << "#", " ", "P", "1", NL, NL, "T", "e", "x", "t", NL, NL, "<", "!", "D", "O", "C", "T", "Y", "P", "E", " ", "h", "t", "m", "l" >>)]}
    [] id = "p2" ->
         {[dirs |-> {}, files |-> NoFiles],
          [dirs |-> {<< "/", "t", "m", "p", "/", "p", "2" >>}, files |-> NoFiles],
          [dirs |-> {<< "/", "t", "m", "p", "/", "p", "2" >>, << "/", "t", "m", "p", "/", "p", "2", "/", "d", "o", "c", "s" >>},
           files |-> (<< "/", "t", "m", "p", "/", "p", "2", "/", "R", "E", "A", "D", "M", "E", ".", "m", "d" >> :> << "#", " ", "P", "2", NL, NL, "S", "e", "e", " ", "{", "c", "f", "g", NL, "v", "a", "l", "u", "e", "}", " ", "a", "n", "d", " ", "{", "x", "1", "}" >>)
                     @@ (<< "/", "t", "m", "p", "/", "p", "2", "/", "d", "o", "c", "s", "/", "D", "E", "S", "I", "G", "N", ".", "m", "d" >> :> << "#", " ", "D", "e", "s", "i", "g", "n", NL, NL, "<", "b", ">", "x", "<", "/", "b", ">" >>)]}
    [] id = "p3" ->
         {[dirs |-> {<< "/", "t", "m", "p", "/", "p", "3" >>}, files |-> NoFiles],
          [dirs |-> {<< "/", "t", "m", "p", "/", "p", "3" >>, << "/", "t", "m", "p", "/", "p", "3", "/", "b", "a", "c", "k", "u", "p" >>},
           files |-> (<< "/", "t", "m", "p", "/", "p", "3", "/", "R", "E", "A", "D", "M", "E", ".", "m", "d" >> :> << "}", " ", "e", "n", "d" >>)
                     @@ (<< "/", "t", "m", "p", "/", "p", "3", "/", "b", "a", "c", "k", "u", "p", "/", "R", "E", "A", "D", "M", "E", ".", "m", "d" >> :> << "o", "l", "d" >>)],
          [dirs |-> {<< "/", "t", "m", "p", "/", "p", "3" >>},
           files |-> (<< "/", "t", "m", "p", "/", "p", "3", "/", "R", "E", "A", "D", "M", "E", ".", "m", "d" >> :> << "<", "!", "D", "O", "C", "T", "Y", "P", "E", " ", "h", "t", "m", "l" >>)]}

\* the source file systems of a run: one tree per project root
Disks ==
  {[dirs |-> t1.dirs \cup t2.dirs \cup t3.dirs,
    files |-> t1.files @@ t2.files @@ t3.files] :
     t1 \in SourceTrees("p1"), t2 \in SourceTrees("p2"), t3 \in SourceTrees("p3")}

\* new Date().toISOString().split('T')[0] on the day of the run
Dates == {<< "2", "0", "2", "5", "-", "0", "1", "-", "1", "5" >>}

NoFault == [kind |-> "none", project |-> "", type |-> ""]

\* the one operation of the run that fails, if any: fs.mkdir of a project's
\* output directory, the first fs.stat of a project's scan, fs.writeFile of a
\* document, of navigation.json or of project-summary.json (a dry run
\* attempts no mkdir and no write, so only a read can fail in it)
Faults ==
  {NoFault,
   [kind |-> "mkdir", project |-> "p1", type |-> ""],
   [kind |-> "mkdir", project |-> "p2", type |-> ""],
   [kind |-> "read", project |-> "p2", type |-> ""],
   [kind |-> "write", project |-> "p1", type |-> "introduction"],
   [kind |-> "write", project |-> "p2", type |-> "readme"],
   [kind |-> "navigation", project |-> "", type |-> ""],
   [kind |-> "summary", project |-> "", type |-> ""]}

(***************************************************************************)
(* State of one run of the descriptor-driven EnhancedProjectScanner.scan() *)
(***************************************************************************)
VARIABLES
  dryRun,            \* this.options.dryRun
  projects,          \* CONFIG.projects
  today,             \* the date new Date() yields during the run
  disk,              \* the source file system
  fault,             \* the operation that fails in this run
  pc,                \* where scan() stands
  cursor,            \* loop positions: d (descriptor), j (project), t (type)
  selectedProjects,  \* the local selectedProjects of scan()
  files,             \* the scanned files of the project being processed
  processedFiles,    \* the local processedFiles of processSelectiveProject
  navigation,        \* navigationBuilder.navigation
  outDirs,           \* directories created by the run
  outFiles,          \* documents written by the run: path -> content
  navigationFile,    \* navigation.json as written, or Undefined
  summaryFile,       \* project-summary.json as written, or Undefined
  stats,             \* logger.stats
  errorLog,          \* the error-level lines the logger printed
  call,              \* a pure function applied to an input (function checks)
  corpus,            \* the documentation tree DocumentationValidator reads
  vpc,               \* where validate() and its CLI stand
  errors,            \* DocumentationValidator.errors
  warnings,          \* DocumentationValidator.warnings
  result,            \* the object validate() returned, or Undefined
  exitCode           \* the code the CLI passed to process.exit, or Undefined

\* the variables of DocumentationValidator and its CLI
validatorVars == << corpus, vpc, errors, warnings, result, exitCode >>

vars ==
  << dryRun, projects, today, disk, fault, pc, cursor, selectedProjects, files,
     processedFiles, navigation, outDirs, outFiles, navigationFile, summaryFile,
     stats, errorLog, call, validatorVars >>

\* no validator has been constructed
ValidatorIdle ==
  /\ corpus = [docs |-> << >>, unreadable |-> {}, others |-> {}, navigation |-> Undefined]
  /\ vpc = "idle"
  /\ errors = << >>
  /\ warnings = << >>
  /\ result = Undefined
  /\ exitCode = Undefined

env == << dryRun, projects, today, disk, fault >>

NoCall == [fn |-> "none"]

\* fs.access(path) succeeds
pathExists(path) == path \in disk.dirs \/ path \in DOMAIN disk.files

\* the project object scan() builds from a descriptor (it has no id, no files,
\* no description and no version property)
MakeProject(projectConfig) ==
  [name |-> projectConfig.id,
   path |-> projectConfig.sourcePath,
   displayName |-> projectConfig.displayName,
   category |-> projectConfig.category,
   priority |-> projectConfig.priority,
   documentTypes |-> projectConfig.documentTypes,
   scanStrategy |-> projectConfig.scanStrategy,
   outputPath |-> projectConfig.outputPath,
   primaryFiles |-> projectConfig.primaryFiles,
   skipPatterns |-> projectConfig.skipPatterns]

\* Logger.error: the line is printed and errorsEncountered is incremented
LogError(line) ==
  /\ errorLog' = Append(errorLog, line)
  /\ stats' = [stats EXCEPT !.errorsEncountered = @ + 1]

ErrorLine(msg, subject, type) == [msg |-> msg, subject |-> subject, type |-> type]

\* faulty variant of Discovered: a discovery loop without the path test
AlwaysDiscovered(projectConfig) == TRUE

\* the condition of the discovery loop
Discovered(projectConfig) == pathExists(projectConfig.sourcePath)

\* project.skipPatterns.some(skipPattern => filePath.includes(skipPattern))
IsSkipped(project, filePath) ==
  \E k \in 1..Len(project.skipPatterns) : IncludesLit(filePath, project.skipPatterns[k])

\* scanSelectiveProjectFiles from pattern n on; failing says whether the
\* injected read failure is still to come.  glob() yields the pattern itself
\* when that exact path exists.  A failing fs.stat/readFile is caught per
\* pattern and logged at debug level only.
RECURSIVE ScanFrom(_, _, _)
ScanFrom(project, n, failing) ==
  IF n > Len(project.primaryFiles) THEN << >>
  ELSE LET filePath == PathJoin(project.path, project.primaryFiles[n])
           statted == pathExists(filePath) /\ ~IsSkipped(project, filePath)
           content == disk.files[filePath]
       IN  IF statted /\ failing THEN ScanFrom(project, n + 1, FALSE)
           ELSE IF statted /\ filePath \in DOMAIN disk.files
           THEN << [path |-> filePath,
                    relativePath |-> PathRelative(project.path, filePath),
                    content |-> content,
                    classification |-> classify(filePath, content),
                    size |-> Len(content)] >>
                  \o ScanFrom(project, n + 1, failing)
           ELSE ScanFrom(project, n + 1, failing)

\* EnhancedProjectScanner.scanSelectiveProjectFiles
scanSelectiveProjectFiles(project) ==
  ScanFrom(project, 1, fault.kind = "read" /\ fault.project = project.name)

\* faulty variant of PrimarySource: a generator that never finds a source file
NoPrimarySource(fs, documentType) == Undefined

\* the switch of generateSelectiveDocument: the source file chosen for a type
PrimarySource(fs, documentType) ==
  CASE documentType = "readme" -> Find(fs, IsReadmeFile)
    [] documentType = "architecture" -> Find(fs, IsArchitectureFile)
    [] documentType = "development" -> Find(fs, IsDevelopmentFile)
    [] OTHER -> Undefined

\* the switch of generateSelectiveDocument: the body of the document
DocumentBody(project, fs, documentType, date) ==
  LET primarySource == PrimarySource(fs, documentType)
  IN  CASE documentType = "introduction" ->
             generateIntroductionContent(project, fs, date)
        [] documentType = "readme" ->
             IF primarySource # Undefined
             THEN sanitizeMDXContent(primarySource.content)
             ELSE generateDefaultReadme(project)
        [] documentType = "architecture" ->
             IF primarySource # Undefined
             THEN sanitizeMDXContent(primarySource.content)
             ELSE generateDefaultArchitecture(project)
        [] documentType = "development" ->
             IF primarySource # Undefined
             THEN sanitizeMDXContent(primarySource.content)
             ELSE generateDefaultDevelopment(project)

\* `${frontmatter}\n\n${content}`
FinalContent(project, fs, documentType, date) ==
  generateCleanFrontmatter(project, documentType, PrimarySource(fs, documentType), date)
    \o << NL, NL >> \o DocumentBody(project, fs, documentType, date)

\* path.join(outputDir, `${documentType}.mdx`)
DocumentPath(project, documentType) ==
  PathJoin(project.outputPath, << documentType >> \o << ".", "m", "d", "x" >>)

\* the object generateSelectiveDocument returns for a written document
DocumentRecord(project, documentType) ==
  [type |-> documentType,
   classification |-> documentType,
   path |-> PathRelative(<< ".", "/", "a", "p", "p", "s", "/", "d", "o", "c", "s" >>, DocumentPath(project, documentType)),
   relativePath |-> PathRelative(OutputDir, DocumentPath(project, documentType))]

\* the default branch of the switch calls this.logger.warn, which Logger does
\* not define: a TypeError
UnknownTypeThrows(documentType) == documentType \notin KnownDocumentTypes

\* faulty variant of DocumentAccepted: a generator without the pre-check
AcceptAnything(finalContent) == TRUE

\* the test guarding the write in generateSelectiveDocument
DocumentAccepted(finalContent) == validateMDXSyntax(finalContent)

\* faulty variant of MayWriteDocument: a generator that ignores dryRun
WriteRegardless == TRUE

\* the guards `if (!this.options.dryRun)`
MayCreateDirectory == ~dryRun

MayWriteDocument == ~dryRun

MayWriteNavigation == ~dryRun

MayWriteSummary == ~dryRun

\* p.files.length in generateSummary: a TypeError when p has no files
SummaryThrows(ps) == \E k \in 1..Len(ps) : Get(ps[k], "files") = Undefined

\* getCategoryBreakdown
CategoryBreakdown(ps) ==
  [c \in {ps[k].category : k \in 1..Len(ps)} |->
     Cardinality({k \in 1..Len(ps) : ps[k].category = c})]

\* the summary object of generateSummary (generatedAt left out)
Summary(ps, st) ==
  [totalProjects |-> Len(ps),
   categories |-> CategoryBreakdown(ps),
   projects |-> [k \in 1..Len(ps) |->
                   [name |-> ps[k].name, fileCount |-> Len(ps[k].files)]],
   statistics |-> st]

(***************************************************************************)
(* scan(), one action per loop iteration or awaited stage                  *)
(***************************************************************************)
ScanStart ==
  /\ pc = "discover"
  /\ cursor = [d |-> 1, j |-> 1, t |-> 1]
  /\ selectedProjects = << >>
  /\ files = << >>
  /\ processedFiles = << >>
  /\ navigation = << >>
  /\ outDirs = {}
  /\ outFiles = NoFiles
  /\ navigationFile = Undefined
  /\ summaryFile = Undefined
  /\ stats = [projectsFound |-> 0, filesProcessed |-> 0,
              errorsEncountered |-> 0, assetscopied |-> 0]
  /\ errorLog = << >>

Init ==
  /\ dryRun \in BOOLEAN
  /\ projects \in Configs
  /\ today \in Dates
  /\ disk \in Disks
  /\ fault \in IF dryRun
                THEN {f \in Faults : f.kind \in {"none", "read"}}
                ELSE Faults
  /\ call = NoCall
  /\ ValidatorIdle
  /\ ScanStart

\* one iteration of `for (const projectConfig of CONFIG.projects)`
Discover ==
  /\ pc = "discover"
  /\ cursor.d <= Len(projects)
  /\ LET projectConfig == projects[cursor.d]
     IN  IF Discovered(projectConfig)
         THEN /\ selectedProjects' = Append(selectedProjects, MakeProject(projectConfig))
              /\ UNCHANGED << stats, errorLog >>
         ELSE /\ LogError(ErrorLine("Project path not found", projectConfig.id, ""))
              /\ UNCHANGED selectedProjects
  /\ cursor' = [cursor EXCEPT !.d = @ + 1]
  /\ UNCHANGED << env, pc, files, processedFiles, navigation, outDirs, outFiles,
                  navigationFile, summaryFile, call, validatorVars >>

\* the end of the discovery loop: stats.projectsFound is set
DiscoveryDone ==
  /\ pc = "discover"
  /\ cursor.d > Len(projects)
  /\ stats' = [stats EXCEPT !.projectsFound = Len(selectedProjects)]
  /\ pc' = IF selectedProjects = << >> THEN "navigation" ELSE "project"
  /\ UNCHANGED << env, cursor, selectedProjects, files, processedFiles, navigation,
                  outDirs, outFiles, navigationFile, summaryFile, errorLog, call, validatorVars >>

\* processSelectiveProject started for the next project as well before this
\* one is finished: the next project's output directory is made at once
BeginProjectAhead ==
  /\ pc = "project"
  /\ LET project == selectedProjects[cursor.j]
         ahead == IF cursor.j < Len(selectedProjects)
                  THEN {PathNormalize(selectedProjects[cursor.j + 1].outputPath)}
                  ELSE {}
     IN  IF MayCreateDirectory /\ fault.kind = "mkdir" /\ fault.project = project.name
         THEN /\ pc' = "thrown"
              /\ UNCHANGED << outDirs, files, processedFiles, cursor >>
         ELSE /\ outDirs' = IF MayCreateDirectory
                            THEN outDirs \cup {PathNormalize(project.outputPath)} \cup ahead
                            ELSE outDirs
              /\ files' = scanSelectiveProjectFiles(project)
              /\ processedFiles' = << >>
              /\ cursor' = [cursor EXCEPT !.t = 1]
              /\ pc' = "generate"
  /\ UNCHANGED << env, selectedProjects, navigation, outFiles, navigationFile,
                  summaryFile, stats, errorLog, call, validatorVars >>

\* processSelectiveProject up to its loop: mkdir (not awaited inside a try, so
\* its failure leaves scan()), then scanSelectiveProjectFiles
BeginProject ==
  /\ pc = "project"
  /\ LET project == selectedProjects[cursor.j]
     IN  IF MayCreateDirectory /\ fault.kind = "mkdir" /\ fault.project = project.name
         THEN /\ pc' = "thrown"
              /\ UNCHANGED << outDirs, files, processedFiles, cursor >>
         ELSE /\ outDirs' = IF MayCreateDirectory
                            THEN outDirs \cup {PathNormalize(project.outputPath)}
                            ELSE outDirs
              /\ files' = scanSelectiveProjectFiles(project)
              /\ processedFiles' = << >>
              /\ cursor' = [cursor EXCEPT !.t = 1]
              /\ pc' = "generate"
  /\ UNCHANGED << env, selectedProjects, navigation, outFiles, navigationFile,
                  summaryFile, stats, errorLog, call, validatorVars >>

\* one iteration of `for (const documentType of project.documentTypes)`:
\* generateSelectiveDocument inside try/catch
GenerateDocument ==
  /\ pc = "generate"
  /\ cursor.t <= Len(selectedProjects[cursor.j].documentTypes)
  /\ LET project == selectedProjects[cursor.j]
         documentType == project.documentTypes[cursor.t]
         finalContent == FinalContent(project, files, documentType, today)
         writeFails == /\ fault.kind = "write"
                       /\ fault.project = project.name
                       /\ fault.type = documentType
     IN  IF UnknownTypeThrows(documentType)
         THEN /\ LogError(ErrorLine("Failed to generate", project.name, documentType))
              /\ UNCHANGED << outFiles, processedFiles >>
         ELSE IF ~DocumentAccepted(finalContent)
         THEN /\ LogError(ErrorLine("MDX validation failed", project.name, documentType))
              /\ UNCHANGED << outFiles, processedFiles >>
         ELSE IF MayWriteDocument /\ writeFails
         THEN /\ LogError(ErrorLine("Failed to generate", project.name, documentType))
              /\ UNCHANGED << outFiles, processedFiles >>
         ELSE /\ outFiles' = IF MayWriteDocument
                             THEN (DocumentPath(project, documentType) :> finalContent)
                                    @@ outFiles
                             ELSE outFiles
              /\ processedFiles' =
                   Append(processedFiles, DocumentRecord(project, documentType))
              /\ UNCHANGED << stats, errorLog >>
  /\ cursor' = [cursor EXCEPT !.t = @ + 1]
  /\ UNCHANGED << env, pc, selectedProjects, files, navigation, outDirs,
                  navigationFile, summaryFile, call, validatorVars >>

\* the end of processSelectiveProject: navigationBuilder.addProject, then the
\* next project of scan()'s loop
EndProject ==
  /\ pc = "generate"
  /\ cursor.t > Len(selectedProjects[cursor.j].documentTypes)
  /\ navigation' = addProject(navigation, selectedProjects[cursor.j].name, processedFiles)
  /\ cursor' = [cursor EXCEPT !.j = @ + 1]
  /\ pc' = IF cursor.j = Len(selectedProjects) THEN "navigation" ELSE "project"
  /\ UNCHANGED << env, selectedProjects, files, processedFiles, outDirs, outFiles,
                  navigationFile, summaryFile, stats, errorLog, call, validatorVars >>

\* `if (!dryRun) await this.navigationBuilder.save(...)`, outside any try
SaveNavigation ==
  /\ pc = "navigation"
  /\ IF ~MayWriteNavigation
     THEN pc' = "summary" /\ UNCHANGED navigationFile
     ELSE IF MintlifyConfigThrows(navigation) \/ fault.kind = "navigation"
     THEN pc' = "thrown" /\ UNCHANGED navigationFile
     ELSE pc' = "summary" /\ navigationFile' = generateMintlifyConfig(navigation)
  /\ UNCHANGED << env, cursor, selectedProjects, files, processedFiles, navigation,
                  outDirs, outFiles, summaryFile, stats, errorLog, call, validatorVars >>

\* `if (!dryRun) await this.generateSummary(selectedProjects)`, outside any
\* try; then printStats and return
GenerateSummary ==
  /\ pc = "summary"
  /\ IF ~MayWriteSummary
     THEN pc' = "done" /\ UNCHANGED summaryFile
     ELSE IF SummaryThrows(selectedProjects) \/ fault.kind = "summary"
     THEN pc' = "thrown" /\ UNCHANGED summaryFile
     ELSE pc' = "done" /\ summaryFile' = Summary(selectedProjects, stats)
  /\ UNCHANGED << env, cursor, selectedProjects, files, processedFiles, navigation,
                  outDirs, outFiles, navigationFile, stats, errorLog, call, validatorVars >>

Next ==
  \/ Discover
  \/ DiscoveryDone
  \/ BeginProject
  \/ GenerateDocument
  \/ EndProject
  \/ SaveNavigation
  \/ GenerateSummary

Spec == Init /\ [][Next]_vars

\* scan() has ended: returned or raised
Ended == pc \in {"done", "thrown"}

(***************************************************************************)
(* Properties of scan()                                                    *)
(***************************************************************************)
\* document type t of selected project k has been through
\* generateSelectiveDocument
DocDone(k, t) ==
  \/ k < cursor.j
  \/ k = cursor.j /\ pc = "generate" /\ t < cursor.t

WriteFails(project, documentType) ==
  fault.kind = "write" /\ fault.project = project.name /\ fault.type = documentType

ErrorLinesFor(project, documentType) ==
  {n \in 1..Len(errorLog) :
     errorLog[n].subject = project.name /\ errorLog[n].type = documentType}

\* the source file a document of this type is to be taken from, read off the
\* scanned files
ExpectedSource(fs, documentType) ==
  LET hits ==
        {i \in 1..Len(fs) :
           CASE documentType = "readme" ->
                  IncludesLit(ToLowerCase(fs[i].relativePath), << "r", "e", "a", "d", "m", "e" >>)
             [] documentType = "architecture" ->
                  \/ fs[i].classification = "architecture"
                  \/ IncludesLit(ToLowerCase(fs[i].relativePath), << "a", "r", "c", "h", "i", "t", "e", "c", "t", "u", "r", "e" >>)
             [] documentType = "development" ->
                  \/ fs[i].classification = "development"
                  \/ IncludesLit(ToLowerCase(fs[i].relativePath), << "d", "e", "v", "e", "l", "o", "p", "m", "e", "n", "t" >>)
             [] OTHER -> FALSE}
  IN  IF hits = {} THEN Undefined
      ELSE fs[CHOOSE i \in hits : \A h \in hits : i <= h]

\* the document the claim expects: frontmatter, then the sanitized source
\* when one was scanned, else the template of the type
ExpectedDocument(project, fs, documentType) ==
  LET source == ExpectedSource(fs, documentType)
      body ==
        IF documentType = "introduction"
        THEN generateIntroductionContent(project, fs, today)
        ELSE IF source # Undefined THEN sanitizeMDXContent(source.content)
        ELSE IF documentType = "readme" THEN generateDefaultReadme(project)
        ELSE IF documentType = "architecture" THEN generateDefaultArchitecture(project)
        ELSE generateDefaultDevelopment(project)
  IN  generateCleanFrontmatter(project, documentType, source, today)
        \o << NL, NL >> \o body

C2_DryRunWritesNothing ==
  dryRun =>
    /\ outDirs = {}
    /\ outFiles = NoFiles
    /\ navigationFile = Undefined
    /\ summaryFile = Undefined
    /\ pc # "thrown"
    /\ pc = "done" =>
         /\ Len(navigation) = Cardinality({k \in 1..Len(projects) : pathExists(projects[k].sourcePath)})
         /\ \A k \in 1..Len(selectedProjects) :
              LET project == selectedProjects[k]
                  fs == scanSelectiveProjectFiles(project)
                  accepted ==
                    {t \in 1..Len(project.documentTypes) :
                       /\ project.documentTypes[t] \in KnownDocumentTypes
                       /\ validateMDXSyntax(
                            ExpectedDocument(project, fs, project.documentTypes[t]))}
              IN  /\ navigation[k].name = project.name
                  /\ Len(navigation[k].files) = Cardinality(accepted)
                  /\ Len(errorLog) >= Len(project.documentTypes) - Cardinality(accepted)

\* C2 witness: a dry run has completed over two existing projects, generated
\* a document and rejected another in the pre-check
C2_Witness ==
  /\ dryRun /\ pc = "done"
  /\ Len(selectedProjects) = 2
  /\ \E k \in 1..Len(navigation) : Len(navigation[k].files) > 0
  /\ \E n \in 1..Len(errorLog) : errorLog[n].msg = "MDX validation failed"

\* DocumentationValidator.validateNavigation: the file a page resolves to,
\* path.join(this.docsDir, `${page}.mdx`)
NavPageFile(page) == PathJoin(OutputDir, page \o << ".", "m", "d", "x" >>)

\* C3 as stated: after a non-dry-run scan every page path held by the
\* NavigationBuilder is a path that resolves, the way the Validator's
\* navigation check resolves it, to a document written in this run, and the
\* navigation of a run with projects has been serialized.
C3_NavigationPagesWritten ==
  (Ended /\ ~dryRun /\ fault = NoFault) =>
    /\ \A k \in 1..Len(navigation) :
         \A m \in 1..Len(navigation[k].files) :
           /\ navigation[k].files[m].path # Undefined
           /\ NavPageFile(PagePath(navigation[k].files[m].path.str)) \in DOMAIN outFiles
    /\ navigation # << >> => navigationFile # Undefined

\* C4 as stated: scan() never raises, whatever single operation fails.
C4_ScanNeverRaises == pc # "thrown"

\* the step of GenerateDocument in which the assembled document of a
\* supported type fails the pre-check
RejectedByPreCheck ==
  /\ pc = "generate"
  /\ cursor.t <= Len(selectedProjects[cursor.j].documentTypes)
  /\ selectedProjects[cursor.j].documentTypes[cursor.t] \in KnownDocumentTypes
  /\ ~validateMDXSyntax(
        FinalContent(selectedProjects[cursor.j], files,
                     selectedProjects[cursor.j].documentTypes[cursor.t], today))

\* C5: the step that handles a document failing the pre-check writes no file,
\* adds nothing to the documents handed to the navigation, logs exactly one
\* error (errorsEncountered grows by one) and moves on to the next document
\* type of the project; and once the scan has ended without a failed mkdir,
\* the rejected document is neither on disk nor in the navigation while every
\* project has its navigation group.
C5_RejectedDocumentSkipped ==
  /\ [][RejectedByPreCheck =>
          /\ outFiles' = outFiles
          /\ processedFiles' = processedFiles
          /\ navigation' = navigation
          /\ Len(errorLog') = Len(errorLog) + 1
          /\ errorLog'[Len(errorLog')] =
               ErrorLine("MDX validation failed", selectedProjects[cursor.j].name,
                         selectedProjects[cursor.j].documentTypes[cursor.t])
          /\ stats'.errorsEncountered = stats.errorsEncountered + 1
          /\ pc' = "generate"
          /\ cursor' = [cursor EXCEPT !.t = @ + 1]]_vars
  /\ [](Ended /\ fault.kind # "mkdir" =>
          /\ Len(navigation) = Len(selectedProjects)
          /\ \A k \in 1..Len(selectedProjects) :
               \A n \in 1..Len(errorLog) :
                 (errorLog[n].msg = "MDX validation failed"
                    /\ errorLog[n].subject = selectedProjects[k].name) =>
                   /\ DocumentPath(selectedProjects[k], errorLog[n].type) \notin DOMAIN outFiles
                   /\ \A m \in 1..Len(navigation[k].files) :
                        navigation[k].files[m].category # errorLog[n].type)

\* C5 witness: in a non-dry-run scan the readme of the first project was
\* rejected by the pre-check, its later architecture document was written and
\* the project after it got its documents
C5_Witness ==
  /\ Ended /\ ~dryRun
  /\ Len(selectedProjects) = 2
  /\ \E n \in 1..Len(errorLog) :
       errorLog[n] = ErrorLine("MDX validation failed", selectedProjects[1].name, "readme")
  /\ DocumentPath(selectedProjects[1], "readme") \notin DOMAIN outFiles
  /\ DocumentPath(selectedProjects[1], "architecture") \in DOMAIN outFiles
  /\ DocumentPath(selectedProjects[2], "readme") \in DOMAIN outFiles
  /\ Len(navigation) = 2 /\ Len(navigation[2].files) > 0

\* descriptors whose sourcePath exists, among the first n of the list
ExistingAmong(n) == {d \in 1..n : pathExists(projects[d].sourcePath)}

\* C6: every descriptor examined whose sourcePath does not exist has exactly
\* one logged error, is no selected project, has no navigation group and no
\* entry in a written summary, whose totalProjects counts the existing
\* descriptors only; every examined descriptor whose path exists, before or
\* after it in the list, is selected, counted in projectsFound and, once the
\* project loop has run without a failed mkdir, has its navigation group.
C6_MissingProjectSkipped ==
  LET examined == IF cursor.d > Len(projects) THEN Len(projects) ELSE cursor.d - 1
      loopRan == pc \in {"navigation", "summary", "done"}
                   \/ (pc = "thrown" /\ fault.kind # "mkdir")
  IN  /\ \A d \in 1..examined :
           LET id == projects[d].id
           IN  IF pathExists(projects[d].sourcePath)
               THEN /\ \E k \in 1..Len(selectedProjects) : selectedProjects[k].name = id
                    /\ \A n \in 1..Len(errorLog) :
                         errorLog[n].msg = "Project path not found" => errorLog[n].subject # id
                    /\ loopRan => \E k \in 1..Len(navigation) : navigation[k].name = id
               ELSE /\ Cardinality({n \in 1..Len(errorLog) :
                                      errorLog[n] = ErrorLine("Project path not found", id, "")}) = 1
                    /\ \A k \in 1..Len(selectedProjects) : selectedProjects[k].name # id
                    /\ \A k \in 1..Len(navigation) : navigation[k].name # id
                    /\ summaryFile # Undefined =>
                         \A k \in 1..Len(summaryFile.projects) : summaryFile.projects[k].name # id
      /\ Len(selectedProjects) = Cardinality(ExistingAmong(examined))
      /\ pc # "discover" => stats.projectsFound = Cardinality(ExistingAmong(Len(projects)))
      /\ summaryFile # Undefined =>
           summaryFile.totalProjects = Cardinality(ExistingAmong(Len(projects)))

\* C6 witness: the first descriptor's path is missing, the second one's
\* exists and its project went through generation into the navigation
C6_Witness ==
  /\ Len(projects) = 2
  /\ ~pathExists(projects[1].sourcePath)
  /\ pathExists(projects[2].sourcePath)
  /\ pc \in {"summary", "done", "thrown"}
  /\ Len(navigation) = 1
  /\ navigation[1].name = projects[2].id
  /\ Len(navigation[1].files) > 0
  /\ Len(errorLog) >= 1 /\ errorLog[1].msg = "Project path not found"

\* C7 as stated: a non-dry-run scan with at least one existing project ends
\* with the navigation file and the summary file written, the summary holding
\* one entry per processed project and totalProjects equal to the number of
\* descriptors whose path exists.
C7_NavigationAndSummaryWritten ==
  (Ended /\ ~dryRun /\ fault = NoFault /\ selectedProjects # << >>) =>
    /\ navigationFile # Undefined
    /\ summaryFile # Undefined
    /\ summaryFile.totalProjects = Cardinality(ExistingAmong(Len(projects)))
    /\ Len(summaryFile.projects) = Len(selectedProjects)

(***************************************************************************)
(* ContentExtractor and processDocumentationFile (directory-walk path)     *)
(***************************************************************************)
Null == [null |-> TRUE]

\* /^---\s*\n([\s\S]*?)\n---\s*\n([\s\S]*)$/: the ends e of an opening
\* `---\s*\n`
OpeningEnds(s) ==
  IF MatchAt(s, 1, DASHES)
  THEN {e \in 4..Len(s) : s[e] = NL /\ \A i \in 4..(e - 1) : s[i] \in WhiteSpace}
  ELSE {}

\* the ends q of a closing `\n---\s*\n` that starts at c
ClosingEnds(s, c) ==
  IF MatchAt(s, c, << NL >> \o DASHES)
  THEN {q \in (c + 4)..Len(s) :
          s[q] = NL /\ \A i \in (c + 4)..(q - 1) : s[i] \in WhiteSpace}
  ELSE {}

ClosingStarts(s, e) == {c \in (e + 1)..Len(s) : ClosingEnds(s, c) # {}}

\* the match of the regex: the opening \s* is greedy, group 1 lazy, the
\* closing \s* greedy
FrontmatterMatch(s) ==
  LET es == {e \in OpeningEnds(s) : ClosingStarts(s, e) # {}}
  IN  IF es = {} THEN Null
      ELSE LET e == CHOOSE x \in es : \A y \in es : y <= x
               cs == ClosingStarts(s, e)
               c == CHOOSE x \in cs : \A y \in cs : x <= y
               qs == ClosingEnds(s, c)
               q == CHOOSE x \in qs : \A y \in qs : y <= x
           IN  [yaml |-> Slice(s, e + 1, c - 1), content |-> Slice(s, q + 1, Len(s))]

Quotes == {"'", "\""}

\* .replace(/^['"]|['"]$/g, '')
StripQuotes(v) ==
  LET a == IF v # << >> /\ v[1] \in Quotes THEN Tail(v) ELSE v
  IN  IF a # << >> /\ a[Len(a)] \in Quotes THEN Slice(a, 1, Len(a) - 1) ELSE a

\* obj[key] = value on an object kept as its entries in insertion order
SetKey(obj, key, value) ==
  IF \E k \in 1..Len(obj) : obj[k].key = key
  THEN [k \in 1..Len(obj) |->
          IF obj[k].key = key THEN [key |-> key, value |-> value] ELSE obj[k]]
  ELSE Append(obj, [key |-> key, value |-> value])

\* obj[key]
Lookup(obj, key) ==
  IF \E k \in 1..Len(obj) : obj[k].key = key
  THEN Str(obj[CHOOSE k \in 1..Len(obj) : obj[k].key = key].value)
  ELSE Undefined

\* the loop of extractFrontmatter over the lines of the preamble
RECURSIVE ParseFrontmatter(_, _)

\* the loop of extractFrontmatter made to give up at the first line that is
\* not key:value
RECURSIVE ParseUntilMalformed(_, _)
ParseUntilMalformed(lines, obj) ==
  IF lines = << >> THEN obj
  ELSE LET line == Head(lines)
           colon == IndexFrom(line, 1, ":")
           key == Slice(line, 1, colon - 1)
           value == StripQuotes(Trim(Slice(line, colon + 1, Len(line))))
       IN  IF key # << >> /\ colon <= Len(line)
           THEN ParseUntilMalformed(Tail(lines), SetKey(obj, Trim(key), value))
           ELSE obj


ParseFrontmatter(lines, obj) ==
  IF lines = << >> THEN obj
  ELSE LET line == Head(lines)
           colon == IndexFrom(line, 1, ":")
           key == Slice(line, 1, colon - 1)
           value == StripQuotes(Trim(Slice(line, colon + 1, Len(line))))
       IN  IF key # << >> /\ colon <= Len(line)
           THEN ParseFrontmatter(Tail(lines), SetKey(obj, Trim(key), value))
           ELSE ParseFrontmatter(Tail(lines), obj)

\* ContentExtractor.extractFrontmatter
extractFrontmatter(content) ==
  LET match == FrontmatterMatch(content)
  IN  IF match # Null
      THEN [frontmatter |-> ParseFrontmatter(SplitLines(match.yaml), << >>),
            content |-> match.content]
      ELSE [frontmatter |-> << >>, content |-> content]

\* \w
WordChars == Letters \cup Digits \cup {"_"}

\* ContentExtractor.generateTitle
generateTitle(filename) ==
  LET spaced == [i \in 1..Len(filename) |->
                   IF filename[i] \in {"-", "_"} THEN " " ELSE filename[i]]
      capital == [i \in 1..Len(spaced) |->
                    IF spaced[i] \in WordChars /\ (i = 1 \/ spaced[i - 1] \notin WordChars)
                    THEN UpperChar(spaced[i])
                    ELSE spaced[i]]
  IN  Trim(capital)

\* a || b for string operands
OrElse(v, default) == IF v = Undefined \/ v.str = << >> THEN default ELSE v.str

\* { ...base, ...existing }
RECURSIVE Spread(_, _)
Spread(base, existing) ==
  IF existing = << >> THEN base
  ELSE Spread(SetKey(base, Head(existing).key, Head(existing).value), Tail(existing))

\* ContentExtractor.enhanceFrontmatter; tags holds the string form of the
\* array, which is all the YAML lines use
enhanceFrontmatter(filePath, existingFrontmatter, projectInfo, date) ==
  LET filename == BasenameNoExt(filePath, Extname(filePath))
      classification == classify(filePath, << >>)
  IN  Spread(
        << [key |-> << "t", "i", "t", "l", "e" >>,
            value |-> OrElse(Lookup(existingFrontmatter, << "t", "i", "t", "l", "e" >>), generateTitle(filename))],
           [key |-> << "d", "e", "s", "c", "r", "i", "p", "t", "i", "o", "n" >>,
            value |-> OrElse(Lookup(existingFrontmatter, << "d", "e", "s", "c", "r", "i", "p", "t", "i", "o", "n" >>),
                             << classification, " for " >> \o projectInfo.name)],
           [key |-> << "c", "a", "t", "e", "g", "o", "r", "y" >>,
            value |-> OrElse(Lookup(existingFrontmatter, << "c", "a", "t", "e", "g", "o", "r", "y" >>), << classification >>)],
           [key |-> << "p", "r", "o", "j", "e", "c", "t" >>, value |-> projectInfo.name],
           [key |-> << "l", "a", "s", "t", "U", "p", "d", "a", "t", "e", "d" >>, value |-> date],
           [key |-> << "t", "a", "g", "s" >>,
            value |-> OrElse(Lookup(existingFrontmatter, << "t", "a", "g", "s" >>),
                             << classification, "," >> \o projectInfo.category)] >>,
        existingFrontmatter)

\* EnhancedProjectScanner.isFileRelevant
isFileRelevant(filePath) ==
  LET filename == ToLowerCase(Basename(filePath))
      ext == ToLowerCase(Extname(filePath))
  IN  \/ ext \in {<< ".", "m", "d" >>, << ".", "m", "d", "x" >>, << ".", "t", "x", "t" >>, << ".", "r", "s", "t" >>}
      \/ filename \in {<< "p", "a", "c", "k", "a", "g", "e", ".", "j", "s", "o", "n" >>, << "t", "s", "c", "o", "n", "f", "i", "g", ".", "j", "s", "o", "n" >>, << "d", "o", "c", "k", "e", "r", "-", "c", "o", "m", "p", "o", "s", "e", ".", "y", "m", "l" >>}
      \/ IncludesLit(filename, << "o", "p", "e", "n", "a", "p", "i" >>)
      \/ IncludesLit(filename, << "s", "w", "a", "g", "g", "e", "r" >>)
      \/ IncludesLit(filename, << "a", "p", "i" >>)
      \/ (ext \in {<< ".", "j", "s" >>, << ".", "t", "s" >>, << ".", "p", "y" >>} /\ IncludesLit(filename, << "i", "n", "d", "e", "x" >>))

\* the extensions analyzeFile reads as text
TextExtensions ==
  {<< ".", "m", "d" >>, << ".", "m", "d", "x" >>, << ".", "t", "x", "t" >>, << ".", "j", "s", "o", "n" >>, << ".", "y", "a", "m", "l" >>, << ".", "y", "m", "l" >>, << ".", "j", "s" >>, << ".", "t", "s" >>, << ".", "p", "y" >>}

\* EnhancedProjectScanner.analyzeFile for a readable file below maxFileSize
\* and below the 5000 characters of the content preview
analyzeFile(filePath, projectRoot, raw) ==
  LET ext == Extname(filePath)
      extracted == IF ext \in {<< ".", "m", "d" >>, << ".", "m", "d", "x" >>}
                   THEN extractFrontmatter(raw)
                   ELSE [frontmatter |-> << >>, content |-> raw]
      content == IF ext \in TextExtensions THEN extracted.content ELSE << >>
      frontmatter == IF ext \in TextExtensions THEN extracted.frontmatter ELSE << >>
  IN  IF ~isFileRelevant(filePath) THEN Null
      ELSE [path |-> filePath,
            relativePath |-> PathRelative(projectRoot, filePath),
            filename |-> Basename(filePath),
            classification |-> classify(filePath, content),
            content |-> content,
            frontmatter |-> frontmatter,
            title |-> OrElse(Lookup(frontmatter, << "t", "i", "t", "l", "e" >>),
                             generateTitle(BasenameNoExt(filePath, ext)))]

\* EnhancedProjectScanner.generateOutputFilename
generateOutputFilename(file) ==
  LET basename == BasenameNoExt(file.filename, Extname(file.filename))
  IN  IF ToLowerCase(basename) = << "r", "e", "a", "d", "m", "e" >> THEN << "r", "e", "a", "d", "m", "e", ".", "m", "d", "x" >>
      ELSE IF IncludesLit(ToLowerCase(basename), << "c", "l", "a", "u", "d", "e" >>) THEN << "a", "i", "-", "c", "o", "n", "t", "e", "x", "t", ".", "m", "d", "x" >>
      ELSE [i \in 1..Len(basename) |->
              IF basename[i] \in Letters \cup Digits \cup {"-", "_"}
              THEN basename[i] ELSE "-"]
             \o << ".", "m", "d", "x" >>

\* `${key}: "${value}"`
YamlLine(entry) == entry.key \o << ":", " ", "\"" >> \o entry.value \o << "\"" >>

\* EnhancedProjectScanner.processDocumentationFile: the written document, or
\* Null when the file is skipped (validateLinks returns the content as it is)
processDocumentationFile(file, project, outputDir, date) ==
  IF file.content = << >> \/ file.classification = "code" THEN Null
  ELSE LET enhancedFrontmatter ==
             enhanceFrontmatter(file.path, file.frontmatter, project, date)
           attribution ==
             << NL, NL >> \o DASHES
               \o << NL, "*", "This content was automatically extracted from " >>
               \o project.name
               \o << ". For the most up-to-date information, refer to the source project.",
                     "*", NL >>
           frontmatterYaml ==
             JoinLines([k \in 1..Len(enhancedFrontmatter) |-> YamlLine(enhancedFrontmatter[k])])
       IN  [outputPath |-> PathRelative(OutputDir, PathJoin(outputDir, generateOutputFilename(file))),
            enhancedFrontmatter |-> enhancedFrontmatter,
            finalContent |-> DASHES \o << NL >> \o frontmatterYaml \o << NL >> \o DASHES
                               \o << NL, NL >> \o file.content \o attribution]

(***************************************************************************)
(* The functions applied to inputs of their own                            *)
(***************************************************************************)
\* the longest text handed to sanitizeMDXContent
MaxLen == 4

\* the longest file list handed to addProject
MaxFiles == 3

\* the most lines a preamble handed to analyzeFile has
MaxPreamble == 2

SanitizerAlphabet == {"{", "}", "1", "a", NL}

SanitizerInputs == UNION {[1..n -> SanitizerAlphabet] : n \in 0..MaxLen}

DigitChars == << "1", "2", "3", "4", "5", "6", "7", "8", "9" >>

\* the i-th file of a list handed to addProject, of classification c
ProcessedFile(c, i) ==
  [classification |-> c,
   title |-> << "Title ", DigitChars[i] >>,
   outputPath |-> << "d", "e", "m", "o", "/" >> \o << "f", DigitChars[i] >> \o << ".", "m", "d", "x" >>]

Classifications ==
  {"readme", "architecture", "introduction", "development", "code", "misc"}

FileLists ==
  {[i \in 1..Len(cs) |-> ProcessedFile(cs[i], i)] :
     cs \in UNION {[1..n -> Classifications] : n \in 0..MaxFiles}}

\* the navigation before the call: empty, or holding the project already
Navigations ==
  {<< >>,
   << [name |-> "demo",
       files |-> << [title |-> Str(<< "O", "l", "d" >>), path |-> Str(<< "d", "e", "m", "o", "/", "o", "l", "d", ".", "m", "d", "x" >>),
                     category |-> "guide"] >>],
      [name |-> "other", files |-> << >>] >>}

PreambleLines ==
  {<< "t", "i", "t", "l", "e", ":", " ", "G", "u", "i", "d", "e" >>, << "t", "i", "t", "l", "e", ":" >>, << "t", "i", "t", "l", "e", ":", " " >> \o << "\"", "\"" >>,
   << "d", "e", "s", "c", "r", "i", "p", "t", "i", "o", "n", ":", " ", "T", "e", "x", "t" >>, << "d", "e", "s", "c", "r", "i", "p", "t", "i", "o", "n", ":" >>}

Bodies == {<< >>, << "B", "o", "d", "y" >>}

FileContents ==
  Bodies \cup
  {DASHES \o << NL >> \o JoinLines(ls) \o << NL >> \o DASHES \o << NL >> \o b :
     ls \in UNION {[1..n -> PreambleLines] : n \in 0..MaxPreamble}, b \in Bodies}

FilePaths ==
  {<< "/", "t", "m", "p", "/", "d", "e", "m", "o", "/", "R", "E", "A", "D", "M", "E", ".", "m", "d" >>, << "/", "t", "m", "p", "/", "d", "e", "m", "o", "/", "_", ".", "m", "d" >>, << "/", "t", "m", "p", "/", "d", "e", "m", "o", "/", "s", "e", "t", "u", "p", "-", "g", "u", "i", "d", "e", ".", "m", "d" >>,
   << "/", "t", "m", "p", "/", "d", "e", "m", "o", "/", "n", "o", "t", "e", "s", ".", "t", "x", "t" >>, << "/", "t", "m", "p", "/", "d", "e", "m", "o", "/", "i", "n", "d", "e", "x", ".", "j", "s" >>, << "/", "t", "m", "p", "/", "d", "e", "m", "o", "/", "l", "o", "g", "o", ".", "p", "n", "g" >>}

\* the project the directory walk found the file in
WalkedProject ==
  [name |-> << "d", "e", "m", "o" >>, path |-> << "/", "t", "m", "p", "/", "d", "e", "m", "o" >>, category |-> << "w", "e", "b" >>]

scanState ==
  << dryRun, projects, today, disk, fault, pc, cursor, selectedProjects, files,
     processedFiles, navigation, outDirs, outFiles, navigationFile, summaryFile,
     stats, errorLog >>

\* the labels with an entry in the order table of getNavigationOrder
MappedLabels ==
  {"readme", "quickstart", "guide", "api-reference", "architecture", "development",
   "deployment", "security", "migration", "changelog", "ai-context", "documentation", "misc"}

\* the labels classify can return, and one no rule returns
OrderInputs ==
  MappedLabels \cup {"code", "config", "api-spec", "unknown"}

\* paths given to classify: every filename rule, every extension default,
\* mixed case, two rules in one name, a rule word in the directory only
ClassifyPaths ==
  { << "d", "o", "c", "s", "/", "R", "E", "A", "D", "M", "E", ".", "m", "d" >>, << "C", "L", "A", "U", "D", "E", ".", "m", "d" >>, << "C", "H", "A", "N", "G", "E", "L", "O", "G", ".", "m", "d" >>, << "c", "h", "a", "n", "g", "e", "s", ".", "t", "x", "t" >>, << "o", "p", "e", "n", "a", "p", "i", ".", "y", "a", "m", "l" >>,
    << "r", "e", "f", "e", "r", "e", "n", "c", "e", ".", "m", "d" >>, << "g", "u", "i", "d", "e", ".", "m", "d" >>, << "T", "u", "t", "o", "r", "i", "a", "l", ".", "M", "D" >>, << "q", "u", "i", "c", "k", "s", "t", "a", "r", "t", ".", "m", "d" >>, << "g", "e", "t", "t", "i", "n", "g", "-", "s", "t", "a", "r", "t", "e", "d", ".", "m", "d" >>,
    << "a", "r", "c", "h", "i", "t", "e", "c", "t", "u", "r", "e", ".", "m", "d" >>, << "d", "e", "s", "i", "g", "n", ".", "p", "n", "g" >>, << "d", "e", "p", "l", "o", "y", "m", "e", "n", "t", ".", "m", "d" >>, << "d", "e", "p", "l", "o", "y", ".", "s", "h" >>, << "d", "e", "v", "e", "l", "o", "p", "m", "e", "n", "t", ".", "m", "d" >>,
    << "d", "e", "v", ".", "j", "s" >>, << "s", "e", "c", "u", "r", "i", "t", "y", ".", "m", "d" >>, << "a", "u", "t", "h", ".", "t", "s" >>, << "m", "i", "g", "r", "a", "t", "i", "o", "n", ".", "m", "d" >>, << "u", "p", "g", "r", "a", "d", "e", ".", "t", "x", "t" >>,
    << "n", "o", "t", "e", "s", ".", "m", "d" >>, << "n", "o", "t", "e", "s", ".", "M", "D", "X" >>, << "i", "n", "d", "e", "x", ".", "j", "s" >>, << "m", "a", "i", "n", ".", "t", "s" >>, << "t", "o", "o", "l", ".", "p", "y" >>, << "A", "p", "p", ".", "j", "a", "v", "a" >>,
    << "p", "a", "c", "k", "a", "g", "e", ".", "j", "s", "o", "n" >>, << "d", "a", "t", "a", ".", "j", "s", "o", "n" >>, << "c", "o", "n", "f", ".", "y", "a", "m", "l" >>, << "c", "i", ".", "y", "m", "l" >>, << "L", "I", "C", "E", "N", "S", "E" >>,
    << "a", "p", "i", "-", "g", "u", "i", "d", "e", ".", "m", "d" >>, << "g", "u", "i", "d", "e", "-", "t", "o", "-", "r", "e", "a", "d", "m", "e", ".", "m", "d" >>, << "r", "e", "a", "d", "m", "e", "/", "n", "o", "t", "e", "s", ".", "t", "x", "t" >>, << "a", "p", "i", "d", "o", "c", "s", "/", "l", "i", "s", "t", ".", "j", "s", "o", "n" >>,
    << "a", "p", "i", ".", "j", "s", "o", "n" >>, << "A", "P", "I", ".", "y", "m", "l" >> }

\* contents given to classify: none, every content rule, two rules at once
ClassifyContents ==
  { << >>, << "T", "e", "x", "t" >>, << "#", " ", "A", "P", "I" >>, << "#", "#", " ", "E", "n", "d", "p", "o", "i", "n", "t", "s" >>, << "#", " ", "Q", "u", "i", "c", "k", " ", "S", "t", "a", "r", "t" >>, << "#", "#", " ", "G", "e", "t", "t", "i", "n", "g", " ", "S", "t", "a", "r", "t", "e", "d" >>,
    << "#", " ", "A", "r", "c", "h", "i", "t", "e", "c", "t", "u", "r", "e" >>, << "#", "#", " ", "S", "y", "s", "t", "e", "m", " ", "D", "e", "s", "i", "g", "n" >>, << "#", " ", "A", "r", "c", "h", "i", "t", "e", "c", "t", "u", "r", "e", NL, "#", "#", " ", "E", "n", "d", "p", "o", "i", "n", "t", "s" >>,
    << "#", "#", " ", "G", "e", "t", "t", "i", "n", "g", " ", "s", "t", "a", "r", "t", "e", "d", NL, "#", " ", "a", "r", "c", "h", "i", "t", "e", "c", "t", "u", "r", "e" >> }

\* a clock that keeps the whole timestamp: new Date().toISOString()
IsoTimestamp(now) == now

\* new Date().toISOString().split('T')[0]
IsoDate(now) == Slice(now, 1, IndexFrom(now, 1, "T") - 1)

\* what one call of generateSelectiveDocument at the instant now writes:
\* the document, or nothing (Undefined) when the type is unknown or the
\* assembled document is rejected
WrittenDocument(project, fs, documentType, now) ==
  IF UnknownTypeThrows(documentType) THEN Undefined
  ELSE IF ~DocumentAccepted(FinalContent(project, fs, documentType, IsoDate(now)))
  THEN Undefined
  ELSE FinalContent(project, fs, documentType, IsoDate(now))

\* the instants of the runs, as toISOString() prints them
Clocks ==
  { << "2", "0", "2", "5", "-", "0", "1", "-", "1", "5", "T", "0", "9", ":", "3", "0", ":", "0", "0", ".", "0", "0", "0", "Z" >>, << "2", "0", "2", "5", "-", "0", "1", "-", "1", "5", "T", "2", "3", ":", "5", "9", ":", "5", "9", ".", "9", "9", "9", "Z" >>, << "2", "0", "2", "5", "-", "0", "1", "-", "1", "6", "T", "0", "0", ":", "0", "0", ":", "0", "0", ".", "0", "0", "0", "Z" >> }

\* a file as scanSelectiveProjectFiles records it
ScannedFile(project, relativePath, content) ==
  [path |-> PathJoin(project.path, relativePath),
   relativePath |-> relativePath,
   content |-> content,
   classification |-> classify(PathJoin(project.path, relativePath), content),
   size |-> Len(content)]

\* the scanned files of a project: none, a README, a README and a design
\* document, a README the pre-check rejects, a README whose heading starts
\* with a digit and whose link has no target
GeneratorFileLists(project) ==
  { << >>,
    << ScannedFile(project, << "R", "E", "A", "D", "M", "E", ".", "m", "d" >>, << "#", " ", "P", NL, NL, "T", "e", "x", "t", " ", "{", "a", NL, "b", "}", NL, "m", "o", "r", "e", NL, "l", "i", "n", "e", "s" >>) >>,
    << ScannedFile(project, << "R", "E", "A", "D", "M", "E", ".", "m", "d" >>, << "#", " ", "P", NL, "<", "b", "r", ">" >>),
       ScannedFile(project, << "d", "o", "c", "s", "/", "D", "E", "S", "I", "G", "N", ".", "m", "d" >>, << "#", " ", "D", "e", "s", "i", "g", "n", NL, NL, "2", "0", "2", "5", "-", "0", "1", "-", "1", "5" >>) >>,
    << ScannedFile(project, << "R", "E", "A", "D", "M", "E", ".", "m", "d" >>, << "<", "!", "D", "O", "C", "T", "Y", "P", "E", " ", "h", "t", "m", "l" >>) >>,
    << ScannedFile(project, << "R", "E", "A", "D", "M", "E", ".", "m", "d" >>, << "#", " ", "2", " ", "s", "t", "e", "p", "s", NL, NL, "[", "d", "o", "c", "s", "]", "(", ")" >>) >> }

GeneratorProjects == {MakeProject(ProjectConfig(id)) : id \in {"p1", "p2", "p3"}}

GeneratorTypes == {"introduction", "readme", "architecture", "development", "changelog"}


\* CONFIG.extraction.maxFileSize: 10 * 1024 * 1024 bytes
maxFileSize == 10485760

\* the sizes fs.stat reports: a small file, a file of exactly the limit, one
\* byte more
FileSizes == {100, maxFileSize, maxFileSize + 1}

\* EnhancedProjectScanner.analyzeFile from its first statement: the size
\* of the file is compared with the limit before the file is read
analyzeSizedFile(filePath, projectRoot, raw, size) ==
  IF size > maxFileSize THEN Null
  ELSE analyzeFile(filePath, projectRoot, raw)

\* scanSelectiveProjectFiles for one primary file that exists: the file is
\* read, classified and collected; its size is only recorded
collectSelectiveFile(project, relativePath, content, size) ==
  [ScannedFile(project, relativePath, content) EXCEPT !.size = size]


\* preamble lines: key:value lines and lines that are not (no colon, nothing
\* before the colon, a value that holds colons)
ExtractLines ==
  PreambleLines \cup
  {<< "n", "o", "t", "e", "s" >>, << ":", " ", "x" >>, << "u", "r", "l", ":", " ", "h", "t", "t", "p", ":", "/", "/", "a" >>, << " ", "t", "i", "t", "l", "e", " ", ":", " ", "'", "T", "'" >>}

\* inputs of extractFrontmatter: a delimited preamble of the given lines
\* before a body, a bare body, and a preamble that is never closed
ExtractInputs ==
  {[delimited |-> TRUE, lines |-> ls, body |-> b,
    content |-> DASHES \o << NL >> \o JoinLines(ls) \o << NL >> \o DASHES \o << NL >> \o b] :
     ls \in UNION {[1..n -> ExtractLines] : n \in 1..MaxPreamble}, b \in Bodies}
  \cup {[delimited |-> FALSE, lines |-> << >>, body |-> b, content |-> b] : b \in Bodies}
  \cup {[delimited |-> FALSE, lines |-> << >>, body |-> b, content |-> DASHES \o << NL >> \o l \o << NL >> \o b] :
          l \in ExtractLines, b \in Bodies}


\* bodies that hold inline tags: an element with text, two elements, an
\* element with an attribute, an opening tag alone, a closing tag alone,
\* self-closing tags with and without attributes, a line break, no tag
TagBodies ==
  {<< "<", "b", ">", "x", "<", "/", "b", ">" >>, << "<", "b", ">", "x", "<", "/", "b", ">", " ", "<", "i", ">", "y", "<", "/", "i", ">" >>, << "<", "a", " ", "h", "r", "e", "f", "=", "\"", "u", "\"", ">", "l", "<", "/", "a", ">" >>, << "<", "b", ">", "x" >>,
   << "x", "<", "/", "b", ">" >>, << "<", "b", "r", "/", ">" >>, << "<", "i", "m", "g", " ", "s", "r", "c", "=", "\"", "a", "\"", "/", ">" >>, << "<", "b", "r", ">" >>, << "a", " ", "<", " ", "b" >>, << "t", "e", "x", "t" >>}

\* no scan is running; one function is about to be applied to one input
FnInit ==
  /\ dryRun = TRUE
  /\ projects = << >>
  /\ today \in Dates
  /\ disk = [dirs |-> {}, files |-> NoFiles]
  /\ fault = NoFault
  /\ pc = "idle"
  /\ cursor = [d |-> 1, j |-> 1, t |-> 1]
  /\ selectedProjects = << >>
  /\ files = << >>
  /\ processedFiles = << >>
  /\ navigation = << >>
  /\ outDirs = {}
  /\ outFiles = NoFiles
  /\ navigationFile = Undefined
  /\ summaryFile = Undefined
  /\ stats = [projectsFound |-> 0, filesProcessed |-> 0,
              errorsEncountered |-> 0, assetscopied |-> 0]
  /\ errorLog = << >>
  /\ ValidatorIdle
  /\ call \in
       {[fn |-> "sanitizeMDXContent", content |-> s] :
          s \in SanitizerInputs \cup TagBodies}
       \cup {[fn |-> "addProject", nav |-> nav, name |-> "demo", files |-> fs] :
               nav \in Navigations, fs \in FileLists}
       \cup {[fn |-> "analyzeFile", filePath |-> p, raw |-> c] :
               p \in FilePaths, c \in FileContents}
       \cup {[fn |-> "classify", filePath |-> p, content |-> c] :
               p \in ClassifyPaths, c \in ClassifyContents}
       \cup {[fn |-> "getNavigationOrder", type |-> t] : t \in OrderInputs}
       \cup UNION {{[fn |-> "generateSelectiveDocument", project |-> p, files |-> fs,
                      documentType |-> t, now |-> now, later |-> later] :
                      fs \in GeneratorFileLists(p), t \in GeneratorTypes,
                      now \in Clocks, later \in Clocks} : p \in GeneratorProjects}
       \cup {[fn |-> "collectFile", by |-> by, project |-> p,
               relativePath |-> << "R", "E", "A", "D", "M", "E", ".", "m", "d" >>, content |-> c, size |-> n,
               now |-> now] :
               by \in {"analyzeFile", "scanSelectiveProjectFiles"},
               p \in GeneratorProjects, c \in Bodies, n \in FileSizes,
               now \in Clocks}
       \cup {[fn |-> "extractFrontmatter", input |-> i] : i \in ExtractInputs}

ApplySanitize ==
  /\ call.fn = "sanitizeMDXContent"
  /\ call' = [fn |-> "returned", of |-> "sanitizeMDXContent", content |-> call.content,
              output |-> sanitizeMDXContent(call.content)]
  /\ UNCHANGED << scanState, validatorVars >>

ApplyAddProject ==
  /\ call.fn = "addProject"
  /\ call' = [fn |-> "returned", of |-> "addProject", nav |-> call.nav,
              name |-> call.name, files |-> call.files,
              output |-> addProject(call.nav, call.name, call.files)]
  /\ UNCHANGED << scanState, validatorVars >>

\* scanProjectFiles keeps the files analyzeFile returns
ApplyAnalyzeFile ==
  /\ call.fn = "analyzeFile"
  /\ call' = [fn |-> "analyzed", raw |-> call.raw,
              file |-> analyzeFile(call.filePath, WalkedProject.path, call.raw)]
  /\ UNCHANGED << scanState, validatorVars >>

\* processProject hands every file that is not code to
\* processDocumentationFile
ApplyProcessDocumentationFile ==
  /\ call.fn = "analyzed"
  /\ call.file # Null
  /\ call.file.classification # "code"
  /\ call' = [fn |-> "returned", of |-> "processDocumentationFile", raw |-> call.raw,
              file |-> call.file,
              output |-> processDocumentationFile(
                           call.file, WalkedProject,
                           PathJoin(OutputDir, WalkedProject.name), today)]
  /\ UNCHANGED << scanState, validatorVars >>

ApplyClassify ==
  /\ call.fn = "classify"
  /\ call' = [fn |-> "returned", of |-> "classify", filePath |-> call.filePath,
              content |-> call.content, output |-> classify(call.filePath, call.content)]
  /\ UNCHANGED << scanState, validatorVars >>

ApplyGetNavigationOrder ==
  /\ call.fn = "getNavigationOrder"
  /\ call' = [fn |-> "returned", of |-> "getNavigationOrder", type |-> call.type,
              output |-> getNavigationOrder(call.type)]
  /\ UNCHANGED << scanState, validatorVars >>

\* a first run generates the document of one (project, type)
ApplyGenerateSelectiveDocument ==
  /\ call.fn = "generateSelectiveDocument"
  /\ call' = [fn |-> "generated", project |-> call.project, files |-> call.files,
              documentType |-> call.documentType, now |-> call.now, later |-> call.later,
              first |-> WrittenDocument(call.project, call.files, call.documentType, call.now)]
  /\ UNCHANGED << scanState, validatorVars >>

\* a second run over the same descriptor and files generates it again
ApplyGenerateAgain ==
  /\ call.fn = "generated"
  /\ call' = [fn |-> "returned", of |-> "generateSelectiveDocument",
              project |-> call.project, files |-> call.files,
              documentType |-> call.documentType, now |-> call.now, later |-> call.later,
              first |-> call.first,
              second |-> WrittenDocument(call.project, call.files, call.documentType,
                                         call.later)]
  /\ UNCHANGED << scanState, validatorVars >>


\* one file of the given size met by one of the two collectors; the
\* descriptor-driven run goes on to generate the readme document from what
\* it collected
ApplyCollectFile ==
  /\ call.fn = "collectFile"
  /\ call' =
       IF call.by = "analyzeFile"
       THEN [fn |-> "returned", of |-> "collectFile", by |-> call.by,
             size |-> call.size, content |-> call.content,
             file |-> analyzeSizedFile(PathJoin(call.project.path, call.relativePath),
                                       call.project.path, call.content, call.size),
             document |-> Undefined]
       ELSE LET file == collectSelectiveFile(call.project, call.relativePath,
                                             call.content, call.size)
            IN [fn |-> "returned", of |-> "collectFile", by |-> call.by,
                size |-> call.size, content |-> call.content, file |-> file,
                document |-> WrittenDocument(call.project, << file >>, "readme",
                                             call.now)]
  /\ UNCHANGED << scanState, validatorVars >>


ApplyExtractFrontmatter ==
  /\ call.fn = "extractFrontmatter"
  /\ call' = [fn |-> "returned", of |-> "extractFrontmatter", input |-> call.input,
              output |-> extractFrontmatter(call.input.content)]
  /\ UNCHANGED << scanState, validatorVars >>

FnNext ==
  \/ ApplySanitize
  \/ ApplyAddProject
  \/ ApplyAnalyzeFile
  \/ ApplyProcessDocumentationFile
  \/ ApplyClassify
  \/ ApplyGetNavigationOrder
  \/ ApplyGenerateSelectiveDocument
  \/ ApplyGenerateAgain
  \/ ApplyCollectFile
  \/ ApplyExtractFrontmatter

FnSpec == FnInit /\ [][FnNext]_vars

\* the value a document's frontmatter holds under key
FrontmatterValue(document, key) == Lookup(document.enhancedFrontmatter, key)

\* C8 as stated: every document processDocumentationFile writes has a
\* non-empty title and a non-empty description in its frontmatter, whatever
\* the source file's preamble and name.
C8_TitleAndDescriptionNonEmpty ==
  (call.fn = "returned" /\ call.of = "processDocumentationFile" /\ call.output # Null) =>
    /\ FrontmatterValue(call.output, << "t", "i", "t", "l", "e" >>) # Undefined
    /\ FrontmatterValue(call.output, << "t", "i", "t", "l", "e" >>).str # << >>
    /\ FrontmatterValue(call.output, << "d", "e", "s", "c", "r", "i", "p", "t", "i", "o", "n" >>) # Undefined
    /\ FrontmatterValue(call.output, << "d", "e", "s", "c", "r", "i", "p", "t", "i", "o", "n" >>).str # << >>

\* depth of open braces after s, or -1 once a "}" closes nothing
RECURSIVE BraceDepth(_, _, _)
BraceDepth(s, i, depth) ==
  IF depth < 0 THEN -1
  ELSE IF i > Len(s) THEN depth
  ELSE IF s[i] = "{" THEN BraceDepth(s, i + 1, depth + 1)
  ELSE IF s[i] = "}" THEN BraceDepth(s, i + 1, depth - 1)
  ELSE BraceDepth(s, i + 1, depth)

Balanced(s) == BraceDepth(s, 1, 0) = 0

\* C9 as stated: the output of sanitizeMDXContent has balanced braces for
\* every input: each "{" has its "}" after it and each "}" its "{" before it.
C9_SanitizedBracesBalanced ==
  (call.fn = "returned" /\ call.of = "sanitizeMDXContent") => Balanced(call.output)

\* C10: after addProject(name, files) the navigation holds one group for the
\* project; its entries are exactly the given files whose classification is
\* neither code nor misc, in non-decreasing navigation order, a readme before
\* an architecture document; the other groups are as they were.
C10_EntriesFilteredAndOrdered ==
  (call.fn = "returned" /\ call.of = "addProject") =>
    LET groups == {k \in 1..Len(call.output) : call.output[k].name = call.name}
        entries == call.output[CHOOSE k \in groups : TRUE].files
        kept == {i \in 1..Len(call.files) :
                   call.files[i].classification \notin {"code", "misc"}}
    IN  /\ Cardinality(groups) = 1
        /\ Len(entries) = Cardinality(kept)
        /\ \A i \in kept :
             \E m \in 1..Len(entries) :
               entries[m] = [title |-> Str(call.files[i].title),
                             path |-> Str(call.files[i].outputPath),
                             category |-> call.files[i].classification]
        /\ \A m \in 1..(Len(entries) - 1) :
             getNavigationOrder(entries[m].category)
               <= getNavigationOrder(entries[m + 1].category)
        /\ \A m, n \in 1..Len(entries) :
             (entries[m].category = "readme" /\ entries[n].category = "architecture")
               => m < n
        /\ \A k \in 1..Len(call.nav) :
             call.nav[k].name # call.name => call.output[k] = call.nav[k]

\* C10 witness: addProject was given an architecture document before a readme
\* and a code file, and returned two entries
C10_Witness ==
  /\ call.fn = "returned" /\ call.of = "addProject"
  /\ Len(call.files) = 3
  /\ call.files[1].classification = "architecture"
  /\ call.files[2].classification = "code"
  /\ call.files[3].classification = "readme"
  /\ call.nav # << >>
  /\ Len(call.output[1].files) = 2

Issue(kind, file, line, detail) ==
  [kind |-> kind, file |-> file, line |-> line, detail |-> detail]

NoIssues == [errors |-> << >>, warnings |-> << >>]

\* errors.push(...issues.errors); warnings.push(...issues.warnings)
Merge(a, b) == [errors |-> a.errors \o b.errors, warnings |-> a.warnings \o b.warnings]

\* the matches of /\[([^\]]*)\]\(([^)]*)\)/g in s from index i on
RECURSIVE Links(_, _)
Links(s, i) ==
  LET b == IndexFrom(s, i, "[")
      j == IndexFrom(s, b + 1, "]")
      k == IndexFrom(s, j + 2, ")")
  IN  IF b > Len(s) THEN << >>
      ELSE IF j < Len(s) /\ s[j + 1] = "(" /\ k <= Len(s)
      THEN << [text |-> Slice(s, b + 1, j - 1), url |-> Slice(s, j + 2, k - 1)] >>
             \o Links(s, k + 1)
      ELSE Links(s, b + 1)

\* the matches of /!\[([^\]]*)\]\(([^)]*)\)/g in s from index i on
RECURSIVE Images(_, _)
Images(s, i) ==
  LET b == IndexFrom(s, i, "!")
      j == IndexFrom(s, b + 2, "]")
      k == IndexFrom(s, j + 2, ")")
  IN  IF b > Len(s) THEN << >>
      ELSE IF /\ b < Len(s) /\ s[b + 1] = "["
              /\ j < Len(s) /\ s[j + 1] = "(" /\ k <= Len(s)
      THEN << [alt |-> Slice(s, b + 2, j - 1), src |-> Slice(s, j + 2, k - 1)] >>
             \o Images(s, k + 1)
      ELSE Images(s, b + 1)

\* a rule that looks at headings of the first level only: /^#\s*\d/
TopLevelStartsWithNumber(line) ==
  LET d == SkipClass(line, 2, WhiteSpace)
  IN  Len(line) >= 1 /\ line[1] = "#" /\ d <= Len(line) /\ line[d] \in Digits

\* /^#+\s*\d/.test(line)
HeadingStartsWithNumber(line) ==
  LET h == SkipClass(line, 1, {"#"})
      d == SkipClass(line, h, WhiteSpace)
  IN  h > 1 /\ d <= Len(line) /\ line[d] \in Digits

\* /{[^}]*\d[^}]*}/.test(line)
HasNumberedExpression(line) ==
  \E i \in 1..Len(line) :
    /\ line[i] = "{"
    /\ IndexFrom(line, i + 1, "}") <= Len(line)
    /\ \E d \in (i + 1)..(IndexFrom(line, i + 1, "}") - 1) : line[d] \in Digits

\* the issues checkMDXSyntax raises for the links of one line
RECURSIVE LinkSyntaxIssues(_, _, _)
LinkSyntaxIssues(links, filePath, lineNum) ==
  IF links = << >> THEN NoIssues
  ELSE LET link == Head(links)
       IN  Merge([errors |-> IF Trim(link.url) = << >>
                             THEN << Issue("Empty link URL", filePath, lineNum, link) >>
                             ELSE << >>,
                  warnings |-> IF Trim(link.text) = << >>
                               THEN << Issue("Empty link text", filePath, lineNum, link) >>
                               ELSE << >>],
                 LinkSyntaxIssues(Tail(links), filePath, lineNum))

\* the body of lines.forEach in checkMDXSyntax
LineIssues(line, lineNum, filePath) ==
  Merge([errors |-> IF HeadingStartsWithNumber(line)
                    THEN << Issue("Heading starts with number", filePath, lineNum, Trim(line)) >>
                    ELSE << >>,
         warnings |-> IF HasNumberedExpression(line) /\ ~IncludesLit(line, << Backtick, Backtick, Backtick >>)
                      THEN << Issue("Potential invalid JSX expression", filePath, lineNum,
                                    Trim(line)) >>
                      ELSE << >>],
        LinkSyntaxIssues(Links(line, 1), filePath, lineNum))

RECURSIVE LinesIssues(_, _, _)
LinesIssues(lines, n, filePath) ==
  IF n > Len(lines) THEN NoIssues
  ELSE Merge(LineIssues(lines[n], n, filePath), LinesIssues(lines, n + 1, filePath))

\* DocumentationValidator.checkMDXSyntax
checkMDXSyntax(content, filePath) == LinesIssues(SplitLines(content), 1, filePath)

\* the segments of a path
RECURSIVE SplitPath(_)
SplitPath(p) ==
  LET j == IndexFrom(p, 1, "/")
  IN  IF j > Len(p) THEN << p >>
      ELSE << Slice(p, 1, j - 1) >> \o SplitPath(Slice(p, j + 1, Len(p)))

RECURSIVE ResolveSegments(_, _)
ResolveSegments(segments, acc) ==
  IF segments = << >> THEN acc
  ELSE LET seg == Head(segments)
       IN  IF seg = << >> \/ seg = << "." >> THEN ResolveSegments(Tail(segments), acc)
           ELSE IF seg = << ".", "." >>
           THEN ResolveSegments(Tail(segments),
                                IF acc = << >> THEN acc ELSE SubSeq(acc, 1, Len(acc) - 1))
           ELSE ResolveSegments(Tail(segments), Append(acc, seg))

RECURSIVE JoinPath(_)
JoinPath(segments) ==
  IF segments = << >> THEN << >>
  ELSE IF Len(segments) = 1 THEN segments[1]
  ELSE segments[1] \o << "/" >> \o JoinPath(Tail(segments))

\* path.resolve(dir, target), as a path relative to the working directory
\* unless target is absolute
PathResolve(dir, target) ==
  IF MatchAt(target, 1, << "/" >>)
  THEN << "/" >> \o JoinPath(ResolveSegments(SplitPath(target), << >>))
  ELSE JoinPath(ResolveSegments(SplitPath(dir \o << "/" >> \o target), << >>))

\* the directories above a path
DirsAbove(p) ==
  {Slice(p, 1, k - 1) : k \in {i \in 2..Len(p) : p[i] = "/"}}

\* fs.access(path) succeeds in the tree c
Accessible(c, path) ==
  LET present == {c.docs[k].path : k \in 1..Len(c.docs)} \cup c.others
  IN  path \in present \/ \E q \in present : path \in DirsAbove(q)

StartsWith(s, prefix) == MatchAt(s, 1, prefix)

\* the loop body of checkLinks
RECURSIVE LinkIssues(_, _, _)
LinkIssues(c, links, filePath) ==
  IF links = << >> THEN NoIssues
  ELSE LET link == Head(links)
           skipped == \/ StartsWith(link.url, << "h", "t", "t", "p" >>)
                      \/ StartsWith(link.url, << "#" >>)
                      \/ StartsWith(link.url, << "m", "a", "i", "l", "t", "o", ":" >>)
           targetPath == PathResolve(Dirname(filePath), link.url)
       IN  Merge([errors |-> IF ~skipped /\ ~Accessible(c, targetPath)
                             THEN << Issue("Broken link", filePath, 0, link) >>
                             ELSE << >>,
                  warnings |-> << >>],
                 LinkIssues(c, Tail(links), filePath))

\* DocumentationValidator.checkLinks
checkLinks(c, content, filePath) == LinkIssues(c, Links(content, 1), filePath)

\* the loop body of checkImages
RECURSIVE ImageIssues(_, _, _)
ImageIssues(c, images, filePath) ==
  IF images = << >> THEN NoIssues
  ELSE LET image == Head(images)
           imagePath == PathResolve(Dirname(filePath), image.src)
       IN  IF StartsWith(image.src, << "h", "t", "t", "p" >>) THEN ImageIssues(c, Tail(images), filePath)
           ELSE Merge([errors |-> IF ~Accessible(c, imagePath)
                                  THEN << Issue("Missing image", filePath, 0, image) >>
                                  ELSE << >>,
                       warnings |-> IF Trim(image.alt) = << >>
                                    THEN << Issue("Image missing alt text", filePath, 0, image.src) >>
                                    ELSE << >>],
                      ImageIssues(c, Tail(images), filePath))

\* DocumentationValidator.checkImages
checkImages(c, content, filePath) == ImageIssues(c, Images(content, 1), filePath)

requiredFields == << << "t", "i", "t", "l", "e" >>, << "d", "e", "s", "c", "r", "i", "p", "t", "i", "o", "n" >> >>

recommendedFields == << << "c", "a", "t", "e", "g", "o", "r", "y" >>, << "t", "a", "g", "s" >>, << "l", "a", "s", "t", "U", "p", "d", "a", "t", "e", "d" >> >>

\* requiredFields.forEach / recommendedFields.forEach of checkFrontmatter
RECURSIVE MissingFields(_, _, _, _)
MissingFields(frontmatter, fields, kind, filePath) ==
  IF fields = << >> THEN << >>
  ELSE (IF ~IncludesLit(frontmatter, Head(fields) \o << ":" >>)
        THEN << Issue(kind, filePath, 0, Head(fields)) >>
        ELSE << >>)
       \o MissingFields(frontmatter, Tail(fields), kind, filePath)

\* DocumentationValidator.checkFrontmatter: it returns warnings only
checkFrontmatter(content, filePath) ==
  IF FirstFence(content, 1, FALSE) # 1
  THEN [warnings |-> << Issue("Missing frontmatter", filePath, 0, << >>) >>]
  ELSE LET frontmatter == FenceYaml(content, 1)
       IN  [warnings |->
              MissingFields(frontmatter, requiredFields,
                            "Missing required frontmatter field", filePath)
              \o MissingFields(frontmatter, recommendedFields,
                               "Missing recommended frontmatter field", filePath)]

\* one pass of `for (const file of mdxFiles)` in the four rule families that
\* read every document: a document that cannot be read adds one error
RECURSIVE FamilyIssues(_, _, _)
FamilyIssues(c, family, n) ==
  IF n > Len(c.docs) THEN NoIssues
  ELSE LET file == c.docs[n].path
           content == c.docs[n].content
           found ==
             IF file \in c.unreadable
             THEN [errors |->
                     << Issue(CASE family = "syntax" -> "Failed to read"
                                [] family = "links" -> "Failed to validate links"
                                [] family = "images" -> "Failed to validate images"
                                [] OTHER -> "Failed to validate frontmatter",
                              file, 0, << >>) >>,
                   warnings |-> << >>]
             ELSE CASE family = "syntax" -> checkMDXSyntax(content, file)
                    [] family = "links" -> checkLinks(c, content, file)
                    [] family = "images" -> checkImages(c, content, file)
                    [] OTHER -> [errors |-> << >>,
                                 warnings |-> checkFrontmatter(content, file).warnings]
       IN  Merge(found, FamilyIssues(c, family, n + 1))

\* a rule that asks for the pages list only: !group.pages
LacksPagesOnly(group) == "pages" \notin DOMAIN group

\* !group.group || !group.pages
GroupIncomplete(group) ==
  \/ "group" \notin DOMAIN group
  \/ group.group = << >>
  \/ "pages" \notin DOMAIN group

\* `for (const page of group.pages)` of validateNavigation
RECURSIVE PageIssues(_, _)
PageIssues(c, pages) ==
  IF pages = << >> THEN << >>
  ELSE (IF ~Accessible(c, NavPageFile(Head(pages)))
        THEN << Issue("Navigation references missing file", << >>, 0, Head(pages)) >>
        ELSE << >>)
       \o PageIssues(c, Tail(pages))

\* `for (const group of navigation.navigation)` of validateNavigation
RECURSIVE GroupIssues(_, _)
GroupIssues(c, groups) ==
  IF groups = << >> THEN NoIssues
  ELSE Merge(IF GroupIncomplete(Head(groups))
             THEN [errors |-> << >>,
                   warnings |-> << Issue("Navigation group missing required fields",
                                         << >>, 0, Head(groups)) >>]
             ELSE [errors |-> PageIssues(c, Head(groups).pages), warnings |-> << >>],
             GroupIssues(c, Tail(groups)))

\* DocumentationValidator.validateNavigation: navigation.json is missing
\* (Undefined), is no JSON, holds no navigation array, or holds the groups
navigationIssues(c) ==
  IF c.navigation = Undefined \/ "malformed" \in DOMAIN c.navigation
  THEN [errors |-> << >>,
        warnings |-> << Issue("Could not validate navigation", << >>, 0, << >>) >>]
  ELSE IF "navigation" \notin DOMAIN c.navigation
            \/ "array" \notin DOMAIN c.navigation.navigation
  THEN [errors |-> << Issue("Invalid navigation.json structure", << >>, 0, << >>) >>,
        warnings |-> << >>]
  ELSE GroupIssues(c, c.navigation.navigation.array)

\* one rule family of validate(): its issues are pushed, the next one is up
RunFamily(found, next) ==
  /\ errors' = errors \o found.errors
  /\ warnings' = warnings \o found.warnings
  /\ vpc' = next
  /\ UNCHANGED << scanState, call, corpus, result, exitCode >>

ValidateMDXSyntax ==
  /\ vpc = "syntax"
  /\ RunFamily(FamilyIssues(corpus, "syntax", 1), "links")

ValidateLinks ==
  /\ vpc = "links"
  /\ RunFamily(FamilyIssues(corpus, "links", 1), "images")

ValidateImages ==
  /\ vpc = "images"
  /\ RunFamily(FamilyIssues(corpus, "images", 1), "frontmatter")

ValidateFrontmatter ==
  /\ vpc = "frontmatter"
  /\ RunFamily(FamilyIssues(corpus, "frontmatter", 1), "navigation")

ValidateNavigation ==
  /\ vpc = "navigation"
  /\ RunFamily(navigationIssues(corpus), "report")

\* a validator that also fails on warnings
SuccessWithoutWarnings(this) == Len(this.errors) = 0 /\ Len(this.warnings) = 0

\* success: this.errors.length === 0
Success(this) == Len(this.errors) = 0

\* printReport and the return of validate()
ValidateReturn ==
  /\ vpc = "report"
  /\ result' = [success |-> Success([errors |-> errors, warnings |-> warnings]),
                errors |-> errors, warnings |-> warnings]
  /\ vpc' = "returned"
  /\ UNCHANGED << scanState, call, corpus, errors, warnings, exitCode >>

\* main(): process.exit(result.success ? 0 : 1)
ValidatorExit ==
  /\ vpc = "returned"
  /\ exitCode' = IF result.success THEN 0 ELSE 1
  /\ vpc' = "exited"
  /\ UNCHANGED << scanState, call, corpus, errors, warnings, result >>

\* ---------------------------------------------------------------------
\* The validator's run over a documentation tree
\* ---------------------------------------------------------------------

\* lines in the body of a document
MaxBodyLines == 2

\* groups in navigation.json
MaxGroups == 2

DocPathA == << "a", "p", "p", "s", "/", "d", "o", "c", "s", "/", "p", "r", "o", "j", "e", "c", "t", "s", "/", "p", "1", "/", "r", "e", "a", "d", "m", "e", ".", "m", "d", "x" >>
DocPathB == << "a", "p", "p", "s", "/", "d", "o", "c", "s", "/", "p", "r", "o", "j", "e", "c", "t", "s", "/", "p", "1", "/", "g", "u", "i", "d", "e", ".", "m", "d", "x" >>
LogoPath == << "a", "p", "p", "s", "/", "d", "o", "c", "s", "/", "p", "r", "o", "j", "e", "c", "t", "s", "/", "p", "1", "/", "l", "o", "g", "o", ".", "p", "n", "g" >>

FieldLines ==
  << << "t", "i", "t", "l", "e", ":", " ", "T" >>, << "d", "e", "s", "c", "r", "i", "p", "t", "i", "o", "n", ":", " ", "D" >>, << "c", "a", "t", "e", "g", "o", "r", "y", ":", " ", "c" >>, << "t", "a", "g", "s", ":", " ", "[", "t", "]" >>,
     << "l", "a", "s", "t", "U", "p", "d", "a", "t", "e", "d", ":", " ", "2", "0", "2", "5", "-", "0", "1", "-", "1", "5" >> >>

\* a frontmatter block holding every field but the k-th (all of them for k = 0)
FrontmatterWithout(k) ==
  << << "-", "-", "-" >> >> \o SubSeq(FieldLines, 1, k - 1) \o SubSeq(FieldLines, k + 1, Len(FieldLines))
    \o << << "-", "-", "-" >> >>

FrontmatterBlocks == {FrontmatterWithout(k) : k \in 0..Len(FieldLines)} \cup {<< >>}

BodyLines ==
  { << "T", "e", "x", "t" >>, << "#", " ", "1", " ", "I", "n", "t", "r", "o" >>, << "{", "o", "p", "e", "n" >>, << "{", "x", "1", "}" >>,
    << "[", "a", "]", "(", "g", "u", "i", "d", "e", ".", "m", "d", "x", ")" >>, << "[", "a", "]", "(", "g", "u", "i", "d", "e", ".", "m", "d", "x", "#", "t", "o", "p", ")" >>, << "[", "a", "]", "(", "m", "i", "s", "s", "i", "n", "g", ".", "m", "d", "x", ")" >>,
    << "[", "a", "]", "(", "h", "t", "t", "p", ":", "/", "/", "x", ")" >>, << "[", "a", "]", "(", "#", "t", "o", "p", ")" >>, << "[", "a", "]", "(", "m", "a", "i", "l", "t", "o", ":", "x", ")" >>,
    << "!", "[", "a", "l", "t", "]", "(", "l", "o", "g", "o", ".", "p", "n", "g", ")" >>, << "!", "[", "]", "(", "m", "i", "s", "s", "i", "n", "g", ".", "p", "n", "g", ")" >> }

DocBodies == UNION {[1..n -> BodyLines] : n \in 0..MaxBodyLines}

Document(path, front, body) == [path |-> path, content |-> JoinLines(front \o body)]

CleanBody == << << "#", "#", " ", "I", "n", "t", "r", "o" >>, << "T", "e", "x", "t" >> >>

DocsA ==
  {Document(DocPathA, front, CleanBody) : front \in FrontmatterBlocks}
    \cup {Document(DocPathA, FrontmatterWithout(0), body) : body \in DocBodies}

DocsB ==
  {Document(DocPathB, FrontmatterWithout(0), body) : body \in {CleanBody, << << "#", "#", " ", "2", " ", "S", "t", "e", "p", "s" >> >>}}

PageLists ==
  { << << "p", "1", "/", "r", "e", "a", "d", "m", "e" >> >>, << << "p", "1", "/", "m", "i", "s", "s", "i", "n", "g" >> >>, << << "p", "1", "/", "r", "e", "a", "d", "m", "e" >>, << "p", "1", "/", "m", "i", "s", "s", "i", "n", "g" >> >> }

Groups ==
  {[group |-> << "P", "1" >>, pages |-> ps] : ps \in PageLists}
    \cup {[pages |-> << << "p", "1", "/", "m", "i", "s", "s", "i", "n", "g" >> >>], [group |-> << "P", "1" >>],
          [group |-> << >>, pages |-> << << "p", "1", "/", "m", "i", "s", "s", "i", "n", "g" >> >>]}

\* navigation.json: missing, no JSON, without a navigation array, or groups
NavigationFiles ==
  {Undefined, [malformed |-> TRUE], [name |-> << "d", "o", "c", "s" >>], [navigation |-> Str(<< "n", "o", "n", "e" >>)]}
    \cup {[navigation |-> [array |-> gs]] : gs \in UNION {[1..n -> Groups] : n \in 0..MaxGroups}}

CleanNavigation == [navigation |-> [array |-> << [group |-> << "P", "1" >>, pages |-> << << "p", "1", "/", "r", "e", "a", "d", "m", "e" >> >>] >>]]

Corpora ==
  {[docs |-> << a, Document(DocPathB, FrontmatterWithout(0), CleanBody) >>,
    unreadable |-> {}, others |-> {LogoPath}, navigation |-> CleanNavigation] : a \in DocsA}
  \cup
  {[docs |-> << Document(DocPathA, FrontmatterWithout(0), CleanBody), b >>,
    unreadable |-> u, others |-> {LogoPath}, navigation |-> nav] :
     b \in DocsB, u \in {{}, {DocPathB}}, nav \in NavigationFiles}

\* no scan is running; the validator is started on one documentation tree
ValInit ==
  /\ dryRun = TRUE
  /\ projects = << >>
  /\ today = CHOOSE d \in Dates : TRUE
  /\ disk = [dirs |-> {}, files |-> NoFiles]
  /\ fault = NoFault
  /\ pc = "idle"
  /\ cursor = [d |-> 1, j |-> 1, t |-> 1]
  /\ selectedProjects = << >>
  /\ files = << >>
  /\ processedFiles = << >>
  /\ navigation = << >>
  /\ outDirs = {}
  /\ outFiles = NoFiles
  /\ navigationFile = Undefined
  /\ summaryFile = Undefined
  /\ stats = [projectsFound |-> 0, filesProcessed |-> 0,
              errorsEncountered |-> 0, assetscopied |-> 0]
  /\ errorLog = << >>
  /\ call = NoCall
  /\ corpus \in Corpora
  /\ vpc = "syntax"
  /\ errors = << >>
  /\ warnings = << >>
  /\ result = Undefined
  /\ exitCode = Undefined

ValNext ==
  \/ ValidateMDXSyntax
  \/ ValidateLinks
  \/ ValidateImages
  \/ ValidateFrontmatter
  \/ ValidateNavigation
  \/ ValidateReturn
  \/ ValidatorExit

ValSpec == ValInit /\ [][ValNext]_vars

ValTypeOK == vpc \in {"syntax", "links", "images", "frontmatter", "navigation", "report", "returned", "exited"}

\* ---------------------------------------------------------------------
\* Claims about the validator
\* ---------------------------------------------------------------------

\* the error-severity issues of the five rule families over a tree
AllErrors(c) ==
  FamilyIssues(c, "syntax", 1).errors \o FamilyIssues(c, "links", 1).errors
    \o FamilyIssues(c, "images", 1).errors \o FamilyIssues(c, "frontmatter", 1).errors
    \o navigationIssues(c).errors

Returned == vpc \in {"returned", "exited"}

\* C12: validate() returns success = true exactly when the error list is
\* empty after all five rule families have run over the tree, whatever the
\* warnings are, and the command exits with code 0 exactly when success is true
C12_SuccessIffNoErrors ==
  /\ Returned =>
       /\ result.errors = AllErrors(corpus)
       /\ result.success <=> (result.errors = << >>)
  /\ vpc = "exited" => (exitCode = 0 <=> result.success) /\ exitCode \in {0, 1}

C12_Witness ==
  /\ vpc = "exited"
  /\ exitCode = 0
  /\ result.success
  /\ result.warnings # << >>

\* the content of a document with the given frontmatter block and a clean body
WithFrontmatter(front) == JoinLines(front \o CleanBody)

\* the readable documents of the tree whose content is one of contents
ReadableDocs(contents) ==
  {k \in 1..Len(corpus.docs) :
     corpus.docs[k].path \notin corpus.unreadable /\ corpus.docs[k].content \in contents}

ErrorsAbout(file) == {n \in 1..Len(result.errors) : result.errors[n].file = file}

WarningsAbout(file) == {n \in 1..Len(result.warnings) : result.warnings[n].file = file}

\* C13 as stated: a document without frontmatter, or whose frontmatter lacks
\* title or description, gets an error-severity issue and validation fails;
\* one that lacks only category, tags or lastUpdated gets a warning and no error
C13_MissingRequiredFieldFails ==
  Returned =>
    /\ \A k \in ReadableDocs({WithFrontmatter(<< >>), WithFrontmatter(FrontmatterWithout(1)),
                              WithFrontmatter(FrontmatterWithout(2))}) :
         /\ ErrorsAbout(corpus.docs[k].path) # {}
         /\ ~result.success
    /\ \A k \in ReadableDocs({WithFrontmatter(FrontmatterWithout(f)) : f \in 3..5}) :
         /\ ErrorsAbout(corpus.docs[k].path) = {}
         /\ WarningsAbout(corpus.docs[k].path) # {}

\* the number of occurrences of a brace in a text
BraceCount(s, ch) == Cardinality({i \in 1..Len(s) : s[i] = ch})

Unbalanced(content) == BraceCount(content, "{") # BraceCount(content, "}")

\* C14 as stated: a readable document whose '{' and '}' do not balance gets an
\* error-severity issue from the syntax rules, and validation fails
C14_UnbalancedBraceIsError ==
  Returned =>
    \A k \in 1..Len(corpus.docs) :
      (corpus.docs[k].path \notin corpus.unreadable /\ Unbalanced(corpus.docs[k].content)) =>
        /\ checkMDXSyntax(corpus.docs[k].content, corpus.docs[k].path).errors # << >>
        /\ ErrorsAbout(corpus.docs[k].path) # {}
        /\ ~result.success

\* a link target without its '#fragment' suffix
WithoutFragment(url) == Slice(url, 1, IndexFrom(url, 1, "#") - 1)

\* a link the link rules do not look at: external, anchor or mailto
NotChecked(url) ==
  \/ MatchAt(url, 1, << "h", "t", "t", "p" >>)
  \/ MatchAt(url, 1, << "#" >>)
  \/ MatchAt(url, 1, << "m", "a", "i", "l", "t", "o", ":" >>)

\* the file a link of the document at filePath points to exists in the tree
TargetExists(filePath, url) ==
  Accessible(corpus, PathResolve(Dirname(filePath), WithoutFragment(url)))

BrokenLinkReported(filePath, link) ==
  \E n \in 1..Len(result.errors) :
    result.errors[n] = Issue("Broken link", filePath, 0, link)

\* C15 as stated: for every readable document and every link in it that is
\* not external, anchor or mailto, a broken-link error naming the document
\* and the target is reported exactly when the target file, resolved against
\* the document's directory, does not exist; a '#fragment' suffix on the
\* target of an existing file changes nothing
C15_BrokenLinkIffTargetMissing ==
  Returned =>
    \A k \in 1..Len(corpus.docs) :
      corpus.docs[k].path \notin corpus.unreadable =>
        LET links == Links(corpus.docs[k].content, 1)
        IN  \A n \in 1..Len(links) :
              ~NotChecked(links[n].url) =>
                (BrokenLinkReported(corpus.docs[k].path, links[n])
                   <=> ~TargetExists(corpus.docs[k].path, links[n].url))

\* a Markdown heading line: one or more '#', white space, then the text
HeadingText(line) ==
  LET h == SkipClass(line, 1, {"#"})
  IN  IF h > 1 /\ h <= Len(line) /\ line[h] \in WhiteSpace
      THEN Trim(Slice(line, h, Len(line)))
      ELSE << >>

HeadingWithDigit(line) == HeadingText(line) # << >> /\ Head(HeadingText(line)) \in Digits

\* the places (document index, line number) of the readable documents of
\* the tree where a heading starts with a digit
DigitHeadings ==
  {p \in (1..Len(corpus.docs)) \X (1..(Len(FieldLines) + 2 + MaxBodyLines + 1)) :
     /\ corpus.docs[p[1]].path \notin corpus.unreadable
     /\ p[2] <= Len(SplitLines(corpus.docs[p[1]].content))
     /\ HeadingWithDigit(SplitLines(corpus.docs[p[1]].content)[p[2]])}

\* C16: every heading line of a readable document whose text starts with a
\* digit gets an error located at that document and line number, and the
\* validation fails (exit code 1)
C16_DigitHeadingIsError ==
  Returned =>
    \A p \in DigitHeadings :
      /\ \E n \in 1..Len(result.errors) :
           /\ result.errors[n].kind = "Heading starts with number"
           /\ result.errors[n].file = corpus.docs[p[1]].path
           /\ result.errors[n].line = p[2]
      /\ ~result.success
      /\ vpc = "exited" => exitCode = 1

C16_Witness ==
  /\ vpc = "exited"
  /\ \E p \in DigitHeadings : p[1] = 2
  /\ exitCode = 1

\* the groups of the navigation tree the validator read ('<< >>' when
\* navigation.json gave no tree)
NavigationGroups ==
  IF corpus.navigation # Undefined /\ "navigation" \in DOMAIN corpus.navigation
       /\ "array" \in DOMAIN corpus.navigation.navigation
  THEN corpus.navigation.navigation.array
  ELSE << >>

LacksField(group) ==
  \/ "group" \notin DOMAIN group
  \/ group.group = << >>
  \/ "pages" \notin DOMAIN group

\* a document exists for a page path of the tree
PageDocumentExists(page) ==
  \E k \in 1..Len(corpus.docs) :
    corpus.docs[k].path = << "a", "p", "p", "s", "/", "d", "o", "c", "s", "/", "p", "r", "o", "j", "e", "c", "t", "s", "/" >> \o page \o << ".", "m", "d", "x" >>

MissingPageErrors(page) ==
  {n \in 1..Len(result.errors) :
     result.errors[n] = Issue("Navigation references missing file", << >>, 0, page)}

GroupWarnings(group) ==
  {n \in 1..Len(result.warnings) :
     result.warnings[n] = Issue("Navigation group missing required fields", << >>, 0, group)}

\* the places (group, position) of a page path in the complete groups of
\* the tree, where no document exists for it
CheckedAndMissing(page) ==
  {p \in (1..Len(NavigationGroups)) \X (1..2) :
     /\ ~LacksField(NavigationGroups[p[1]])
     /\ p[2] <= Len(NavigationGroups[p[1]].pages)
     /\ NavigationGroups[p[1]].pages[p[2]] = page
     /\ ~PageDocumentExists(page)}

\* C17: every page path of a complete group for which no document exists
\* gets an error; every group lacking its name or its pages list gets a
\* warning and no error, and its pages are not checked
C17_NavigationPagesChecked ==
  Returned =>
    /\ \A page \in UNION {{ps[i] : i \in 1..Len(ps)} : ps \in PageLists} :
         Cardinality(MissingPageErrors(page)) = Cardinality(CheckedAndMissing(page))
    /\ \A g \in 1..Len(NavigationGroups) :
         LET group == NavigationGroups[g]
         IN  IF LacksField(group)
             THEN /\ GroupWarnings(group) # {}
                  /\ \A n \in 1..Len(result.errors) : result.errors[n].detail # group
             ELSE \A i \in 1..Len(group.pages) :
                    ~PageDocumentExists(group.pages[i]) =>
                      /\ MissingPageErrors(group.pages[i]) # {}
                      /\ ~result.success

C17_Witness ==
  /\ vpc = "exited"
  /\ Len(NavigationGroups) = 2
  /\ LacksField(NavigationGroups[1])
  /\ "pages" \in DOMAIN NavigationGroups[1]
  /\ ~PageDocumentExists(NavigationGroups[1].pages[1])
  /\ ~LacksField(NavigationGroups[2])
  /\ \E i \in 1..Len(NavigationGroups[2].pages) :
       ~PageDocumentExists(NavigationGroups[2].pages[i])
  /\ exitCode = 1

\* ---------------------------------------------------------------------
\* Claims about FileClassifier
\* ---------------------------------------------------------------------

\* the rule table of the classifier, top to bottom: what a rule looks at,
\* the words it looks for, and its label
RuleTable ==
  << [on |-> "filename", words |-> {<< "r", "e", "a", "d", "m", "e" >>}, label |-> "readme"],
     [on |-> "filename", words |-> {<< "c", "l", "a", "u", "d", "e" >>}, label |-> "ai-context"],
     [on |-> "filename", words |-> {<< "c", "h", "a", "n", "g", "e", "l", "o", "g" >>, << "c", "h", "a", "n", "g", "e", "s" >>}, label |-> "changelog"],
     [on |-> "filename", words |-> {<< "a", "p", "i" >>, << "r", "e", "f", "e", "r", "e", "n", "c", "e" >>}, label |-> "api-reference"],
     [on |-> "filename", words |-> {<< "g", "u", "i", "d", "e" >>, << "t", "u", "t", "o", "r", "i", "a", "l" >>}, label |-> "guide"],
     [on |-> "filename", words |-> {<< "q", "u", "i", "c", "k", "s", "t", "a", "r", "t" >>, << "g", "e", "t", "t", "i", "n", "g", "-", "s", "t", "a", "r", "t", "e", "d" >>}, label |-> "quickstart"],
     [on |-> "filename", words |-> {<< "a", "r", "c", "h", "i", "t", "e", "c", "t", "u", "r", "e" >>, << "d", "e", "s", "i", "g", "n" >>}, label |-> "architecture"],
     [on |-> "filename", words |-> {<< "d", "e", "p", "l", "o", "y", "m", "e", "n", "t" >>, << "d", "e", "p", "l", "o", "y" >>}, label |-> "deployment"],
     [on |-> "filename", words |-> {<< "d", "e", "v", "e", "l", "o", "p", "m", "e", "n", "t" >>, << "d", "e", "v" >>}, label |-> "development"],
     [on |-> "filename", words |-> {<< "s", "e", "c", "u", "r", "i", "t", "y" >>, << "a", "u", "t", "h" >>}, label |-> "security"],
     [on |-> "filename", words |-> {<< "m", "i", "g", "r", "a", "t", "i", "o", "n" >>, << "u", "p", "g", "r", "a", "d", "e" >>}, label |-> "migration"],
     [on |-> "content", words |-> {<< "#", " ", "a", "p", "i" >>, << "#", "#", " ", "e", "n", "d", "p", "o", "i", "n", "t", "s" >>}, label |-> "api-reference"],
     [on |-> "content", words |-> {<< "#", " ", "q", "u", "i", "c", "k", " ", "s", "t", "a", "r", "t" >>, << "#", "#", " ", "g", "e", "t", "t", "i", "n", "g", " ", "s", "t", "a", "r", "t", "e", "d" >>}, label |-> "quickstart"],
     [on |-> "content", words |-> {<< "#", " ", "a", "r", "c", "h", "i", "t", "e", "c", "t", "u", "r", "e" >>, << "#", "#", " ", "s", "y", "s", "t", "e", "m", " ", "d", "e", "s", "i", "g", "n" >>}, label |-> "architecture"],
     [on |-> "extension", words |-> {<< ".", "m", "d" >>, << ".", "m", "d", "x" >>}, label |-> "documentation"],
     [on |-> "extension", words |-> {<< ".", "j", "s" >>, << ".", "t", "s" >>, << ".", "p", "y" >>, << ".", "j", "a", "v", "a" >>}, label |-> "code"],
     [on |-> "name", words |-> {<< "p", "a", "c", "k", "a", "g", "e", ".", "j", "s", "o", "n" >>}, label |-> "config"],
     [on |-> "api extension", words |-> {<< ".", "j", "s", "o", "n" >>, << ".", "y", "a", "m", "l" >>, << ".", "y", "m", "l" >>}, label |-> "api-spec"] >>

RuleMatches(rule, filename, contentLower, ext) ==
  CASE rule.on = "filename" -> \E w \in rule.words : IncludesLit(filename, w)
    [] rule.on = "content" -> \E w \in rule.words : IncludesLit(contentLower, w)
    [] rule.on = "extension" -> ext \in rule.words
    [] rule.on = "name" -> filename \in rule.words
    [] OTHER -> ext \in rule.words /\ IncludesLit(filename, << "a", "p", "i" >>)

FirstMatchingRule(filename, contentLower, ext) ==
  LET hits == {r \in 1..Len(RuleTable) : RuleMatches(RuleTable[r], filename, contentLower, ext)}
  IN  IF hits = {} THEN "misc"
      ELSE RuleTable[CHOOSE r \in hits : \A q \in hits : r <= q].label

LabelSet ==
  {"readme", "ai-context", "changelog", "api-reference", "guide", "quickstart",
   "architecture", "deployment", "development", "security", "migration",
   "documentation", "code", "config", "api-spec", "misc"}

ClassifyReturned == call.fn = "returned" /\ call.of = "classify"

FilenameRuleMatches(filePath) ==
  \E r \in 1..Len(RuleTable) :
    /\ RuleTable[r].on = "filename"
    /\ RuleMatches(RuleTable[r], ToLowerCase(Basename(filePath)), << >>, << >>)

\* C18: classify(path, content) is the label of the first rule of the
\* table that matches (file name words, then content headings, then
\* extension defaults, else misc); when a file name rule matches, no
\* content changes the result; the result is in the closed label set
C18_FirstMatchingRuleWins ==
  ClassifyReturned =>
    /\ call.output = FirstMatchingRule(ToLowerCase(Basename(call.filePath)),
                                       ToLowerCase(call.content),
                                       ToLowerCase(Extname(call.filePath)))
    /\ call.output \in LabelSet
    /\ FilenameRuleMatches(call.filePath) =>
         \A c \in ClassifyContents : classify(call.filePath, c) = call.output

C18_Witness ==
  /\ ClassifyReturned
  /\ call.filePath = << "g", "u", "i", "d", "e", "-", "t", "o", "-", "r", "e", "a", "d", "m", "e", ".", "m", "d" >>
  /\ call.content = << "#", " ", "A", "r", "c", "h", "i", "t", "e", "c", "t", "u", "r", "e", NL, "#", "#", " ", "E", "n", "d", "p", "o", "i", "n", "t", "s" >>
  /\ call.output = "readme"

\* C19 as stated: a label without an entry in the order table gets an order
\* greater than the order of every label that has one
C19_UnmappedLabelSortsLast ==
  (call.fn = "returned" /\ call.of = "getNavigationOrder" /\ call.type \notin MappedLabels) =>
    \A mapped \in MappedLabels : call.output > getNavigationOrder(mapped)

\* ---------------------------------------------------------------------
\* Claims about regeneration
\* ---------------------------------------------------------------------

TwoRunsDone == call.fn = "returned" /\ call.of = "generateSelectiveDocument"

\* the calendar date of an instant printed by toISOString(): YYYY-MM-DD
CalendarDate(now) == SubSeq(now, 1, 10)

\* position i of a document lies in a printed date
InDate(doc, i, date) ==
  \E s \in 1..Len(doc) : s <= i /\ i < s + Len(date) /\ MatchAt(doc, s, date)

OversizedMet ==
  /\ call.fn = "returned"
  /\ call.of = "collectFile"
  /\ call.size > maxFileSize

\* C21 as stated: on both collecting paths a file whose size exceeds
\* extraction.maxFileSize is skipped (nothing is collected) and no
\* document is generated from it
C21_OversizedFileSkipped ==
  OversizedMet => call.file = Null /\ call.document = Undefined

\* analyzeFile alone keeps the limit: an oversized file yields null, a file
\* of exactly the limit is analysed
C21_WalkSkipsOversized ==
  (call.fn = "returned" /\ call.of = "collectFile" /\ call.by = "analyzeFile")
    => (call.file = Null <=> call.size > maxFileSize)

\* the descriptor-driven run collected an oversized README and wrote the
\* readme document from it
C21_OversizedBecameDocument ==
  /\ OversizedMet
  /\ call.by = "scanSelectiveProjectFiles"
  /\ call.file # Null
  /\ call.file.size > maxFileSize
  /\ call.document # Undefined

\* a preamble line that is key:value: it holds a colon and something
\* before the first one
IsKeyValue(line) == IndexFrom(line, 1, ":") \in 2..Len(line)

KeyOf(line) == Trim(Slice(line, 1, IndexFrom(line, 1, ":") - 1))

ValueOf(line) ==
  StripQuotes(Trim(Slice(line, IndexFrom(line, 1, ":") + 1, Len(line))))

Extracted == call.fn = "returned" /\ call.of = "extractFrontmatter"

\* C22: extractFrontmatter returns a result for every input; without a
\* delimited preamble the mapping is empty and the body is the input; with
\* one, the body is what follows it, every key:value line is in the mapping
\* (the last line of a key gives its value) whatever other lines surround
\* it, and the lines that are not key:value add nothing
C22_LenientFrontmatter ==
  Extracted =>
    LET lines == call.input.lines
        out == call.output
        keys == {out.frontmatter[k].key : k \in 1..Len(out.frontmatter)}
    IN  IF ~call.input.delimited
        THEN out = [frontmatter |-> << >>, content |-> call.input.content]
        ELSE /\ out.content = call.input.body
             /\ keys = {KeyOf(lines[i]) : i \in {j \in 1..Len(lines) : IsKeyValue(lines[j])}}
             /\ \A i \in 1..Len(lines) :
                  (/\ IsKeyValue(lines[i])
                   /\ \A j \in (i + 1)..Len(lines) :
                        IsKeyValue(lines[j]) => KeyOf(lines[j]) # KeyOf(lines[i]))
                    => Lookup(out.frontmatter, KeyOf(lines[i])) = Str(ValueOf(lines[i]))

\* a preamble whose first line is not key:value and whose second is: the
\* second line was still parsed
C22_Witness ==
  /\ Extracted
  /\ call.input.delimited
  /\ Len(call.input.lines) = 2
  /\ ~IsKeyValue(call.input.lines[1])
  /\ IsKeyValue(call.input.lines[2])
  /\ Len(call.output.frontmatter) = 1

\* an input whose preamble is never closed comes back whole
C22_NoPreamble ==
  /\ Extracted
  /\ ~call.input.delimited
  /\ Len(call.input.content) > Len(call.input.body)
  /\ call.output.content = call.input.content

(***************************************************************************)
(* The directory-walk scanner: the first EnhancedProjectScanner's scan,    *)
(* processProject, processDocumentationFile and generateProjectIndex       *)
(***************************************************************************)

\* the files a walk of /tmp/demo meets, in the order readdir lists them, with
\* what each holds
WalkSources ==
  << [path |-> << "/", "t", "m", "p", "/", "d", "e", "m", "o", "/", "C", "L", "A", "U", "D", "E", ".", "m", "d" >>, raw |-> << "#", " ", "C", "o", "n", "t", "e", "x", "t" >>],
     [path |-> << "/", "t", "m", "p", "/", "d", "e", "m", "o", "/", "R", "E", "A", "D", "M", "E", ".", "m", "d" >>, raw |-> << "#", " ", "D", "e", "m", "o" >>],
     [path |-> << "/", "t", "m", "p", "/", "d", "e", "m", "o", "/", "a", " ", "b", ".", "m", "d" >>, raw |-> << "#", " ", "O", "n", "e" >>],
     [path |-> << "/", "t", "m", "p", "/", "d", "e", "m", "o", "/", "a", "+", "b", ".", "m", "d" >>, raw |-> << "#", " ", "T", "w", "o" >>],
     [path |-> << "/", "t", "m", "p", "/", "d", "e", "m", "o", "/", "d", "o", "c", "s", "/", "R", "E", "A", "D", "M", "E", ".", "m", "d" >>, raw |-> << "#", " ", "D", "o", "c", "s" >>],
     [path |-> << "/", "t", "m", "p", "/", "d", "e", "m", "o", "/", "e", "m", "p", "t", "y", ".", "m", "d" >>, raw |-> << >>],
     [path |-> << "/", "t", "m", "p", "/", "d", "e", "m", "o", "/", "i", "n", "d", "e", "x", ".", "j", "s" >>, raw |-> << "x" >>] >>

\* analyzeProject: what the walk knows of a project once its files are
\* analysed (no package.json: the defaults of name, description and version)
WalkProject(name, root, sources) ==
  [name |-> name,
   path |-> root,
   displayName |-> name,
   description |-> name \o << " project" >>,
   version |-> << "1", ".", "0", ".", "0" >>,
   category |-> << "w", "e", "b" >>,
   files |-> [k \in 1..Len(sources) |->
                analyzeFile(sources[k].path, root, sources[k].raw)]]

\* the projects a walk finds: none, demo with up to MaxFiles of its files, and
\* demo followed by a project that holds a README only
WalkProjectLists ==
  LET demos ==
        {WalkProject(<< "d", "e", "m", "o" >>, << "/", "t", "m", "p", "/", "d", "e", "m", "o" >>,
                     [k \in 1..Cardinality(S) |->
                            WalkSources[CHOOSE m \in S :
                                          Cardinality({n \in S : n < m}) = k - 1]]) :
           S \in {T \in SUBSET (1..Len(WalkSources)) : Cardinality(T) <= MaxFiles}}
      site == WalkProject(<< "s", "i", "t", "e" >>, << "/", "t", "m", "p", "/", "s", "i", "t", "e" >>,
                          << [path |-> << "/", "t", "m", "p", "/", "s", "i", "t", "e", "/", "R", "E", "A", "D", "M", "E", ".", "m", "d" >>, raw |-> << "#", " ", "S", "i", "t", "e" >>] >>)
  IN  {<< >>} \cup {<< d >> : d \in demos} \cup {<< d, site >> : d \in demos}

\* `- [${file.title}](./${path.basename(file.outputPath, '.mdx')})`
IndexLine(file) ==
  << "-", " ", "[" >> \o file.title \o << "]", "(", ".", "/" >>
    \o BasenameNoExt(file.outputPath, << ".", "m", "d", "x" >>) \o << ")" >>

\* EnhancedProjectScanner.generateProjectIndex: the content of index.mdx
generateProjectIndex(project, processed, date) ==
  DASHES \o << NL >>
    \o << "t", "i", "t", "l", "e", ":", " ", "\"" >> \o project.displayName \o << "\"", NL >>
    \o << "d", "e", "s", "c", "r", "i", "p", "t", "i", "o", "n", ":", " ", "\"" >> \o project.description \o << "\"", NL >>
    \o << "category: \"project-overview\"", NL >>
    \o << "p", "r", "o", "j", "e", "c", "t", ":", " ", "\"" >> \o project.name \o << "\"", NL >>
    \o << "v", "e", "r", "s", "i", "o", "n", ":", " ", "\"" >> \o project.version \o << "\"", NL >>
    \o << "l", "a", "s", "t", "U", "p", "d", "a", "t", "e", "d", ":", " ", "\"" >> \o date \o << "\"", NL >>
    \o DASHES \o << NL, NL, "#", " " >> \o project.displayName \o << NL, NL >>
    \o project.description \o << NL, NL, "## Overview", NL, NL >>
    \o << "This project is part of the LostMind AI ecosystem and falls under the " >>
    \o << "*", "*" >> \o project.category \o << "*", "*" >> \o << " category.", NL, NL >>
    \o << "## Available Documentation", NL, NL >>
    \o JoinLines([k \in 1..Len(processed) |-> IndexLine(processed[k])])
    \o << NL, NL, "## Project Information", NL, NL, "No dependencies found.", NL >>

\* the directory of a project's documents
WalkOutputDir(project) == PathJoin(OutputDir, project.name)

\* what processProject keeps of a written file: `{ ...file, outputPath,
\* enhancedFrontmatter }`
WalkProcessed(file, project, date) ==
  LET out == processDocumentationFile(file, project, WalkOutputDir(project), date)
  IN  [path |-> file.path, title |-> file.title,
       classification |-> file.classification,
       outputPath |-> out.outputPath,
       enhancedFrontmatter |-> out.enhancedFrontmatter]

\* the state at the start of scan(), the projects found
WalkInit ==
  /\ dryRun \in BOOLEAN
  /\ projects \in WalkProjectLists
  /\ today \in Dates
  /\ disk = [dirs |-> {}, files |-> NoFiles]
  /\ fault = NoFault
  /\ pc = IF projects = << >> THEN "navigation" ELSE "project"
  /\ cursor = [d |-> 1, j |-> 1, t |-> 1]
  /\ selectedProjects = << >>
  /\ files = << >>
  /\ processedFiles = << >>
  /\ navigation = << >>
  /\ outDirs = {}
  /\ outFiles = NoFiles
  /\ navigationFile = Undefined
  /\ summaryFile = Undefined
  /\ stats = [projectsFound |-> Len(projects), filesProcessed |-> 0,
              errorsEncountered |-> 0, assetscopied |-> 0]
  /\ errorLog = << >>
  /\ call = NoCall
  /\ ValidatorIdle

\* processProject up to its loop: the output directory is made, the files
\* that are not code are the ones to process
WalkBeginProject ==
  /\ pc = "project"
  /\ outDirs' = outDirs \cup {WalkOutputDir(projects[cursor.j])}
  /\ files' = LET NotCode(f) == f.classification # "code"
              IN  SelectSeq(projects[cursor.j].files, NotCode)
  /\ processedFiles' = << >>
  /\ cursor' = [cursor EXCEPT !.t = 1]
  /\ pc' = "files"
  /\ UNCHANGED << env, selectedProjects, navigation, outFiles, navigationFile,
                  summaryFile, stats, errorLog, call, validatorVars >>

\* one turn of processProject's loop: processDocumentationFile writes the
\* document unless the file has no content
WalkProcessFile ==
  /\ pc = "files"
  /\ cursor.t <= Len(files)
  /\ LET project == projects[cursor.j]
         file == files[cursor.t]
         out == processDocumentationFile(file, project, WalkOutputDir(project), today)
     IN  IF out = Null
         THEN UNCHANGED << outFiles, processedFiles >>
         ELSE /\ outFiles' = (PathJoin(OutputDir, out.outputPath) :> out.finalContent)
                               @@ outFiles
              /\ processedFiles' = Append(processedFiles, WalkProcessed(file, project, today))
  /\ cursor' = [cursor EXCEPT !.t = @ + 1]
  /\ UNCHANGED << env, pc, selectedProjects, files, navigation, outDirs,
                  navigationFile, summaryFile, stats, errorLog, call, validatorVars >>

\* the end of processProject: the project index is written and the project
\* enters the navigation
WalkEndProject ==
  /\ pc = "files"
  /\ cursor.t > Len(files)
  /\ LET project == projects[cursor.j]
     IN  /\ outFiles' = (PathJoin(WalkOutputDir(project), << "i", "n", "d", "e", "x", ".", "m", "d", "x" >>)
                           :> generateProjectIndex(project, processedFiles, today))
                          @@ outFiles
         /\ navigation' = addProject(navigation, project.name, processedFiles)
  /\ cursor' = [cursor EXCEPT !.j = @ + 1]
  /\ pc' = IF cursor.j = Len(projects) THEN "navigation" ELSE "project"
  /\ UNCHANGED << env, selectedProjects, files, processedFiles, outDirs,
                  navigationFile, summaryFile, stats, errorLog, call, validatorVars >>

\* `await this.navigationBuilder.save(...)`
WalkSaveNavigation ==
  /\ pc = "navigation"
  /\ navigationFile' = generateMintlifyConfig(navigation)
  /\ pc' = "summary"
  /\ UNCHANGED << env, cursor, selectedProjects, files, processedFiles, navigation,
                  outDirs, outFiles, summaryFile, stats, errorLog, call, validatorVars >>

\* `await this.generateSummary(allProjects)`
WalkGenerateSummary ==
  /\ pc = "summary"
  /\ summaryFile' = Summary(projects, stats)
  /\ pc' = "done"
  /\ UNCHANGED << env, cursor, selectedProjects, files, processedFiles, navigation,
                  outDirs, outFiles, navigationFile, stats, errorLog, call, validatorVars >>

WalkNext ==
  \/ WalkBeginProject
  \/ WalkProcessFile
  \/ WalkEndProject
  \/ WalkSaveNavigation
  \/ WalkGenerateSummary

WalkSpec == WalkInit /\ [][WalkNext]_vars

\* nothing has been created or written
NothingWritten ==
  /\ outDirs = {}
  /\ outFiles = NoFiles
  /\ navigationFile = Undefined
  /\ summaryFile = Undefined

\* C23 as stated: a run of the directory-walk scanner with --dry-run
\* creates and writes nothing: no project directory, document, project
\* index, navigation file or summary file
C23_DryRunWritesNothing == dryRun => NothingWritten

\* a dry run over one project has ended with the project's directory, a
\* document, the project index, the navigation file and the summary written
C23_DryRunWrote ==
  /\ dryRun
  /\ pc = "done"
  /\ outDirs # {}
  /\ Cardinality(DOMAIN outFiles) >= 2
  /\ navigationFile # Undefined
  /\ summaryFile # Undefined

\* a document has been assembled for a declared type of the project
Assembled == call.fn = "generated" /\ ~UnknownTypeThrows(call.documentType)

\* the document assembled by the call, before the pre-check
AssembledDocument ==
  FinalContent(call.project, call.files, call.documentType, IsoDate(call.now))

\* the errors the Validator's Syntax family reports for the document at
\* its output path
SyntaxErrors(content) ==
  checkMDXSyntax(content, DocumentPath(call.project, call.documentType)).errors

\* C24 as stated: every assembled document the generator's pre-check
\* rejects has at least one Syntax-family error in the Validator, and every
\* document the pre-check accepts (and the generator writes) has none
C24_PreCheckRefinesSyntaxFamily ==
  Assembled =>
    IF validateMDXSyntax(AssembledDocument)
    THEN call.first # Undefined /\ SyntaxErrors(call.first) = << >>
    ELSE call.first = Undefined /\ SyntaxErrors(AssembledDocument) # << >>

\* the pre-check rejected a document (an unclosed declaration) in which the
\* Syntax family finds no error
C24_RejectedButClean ==
  /\ Assembled
  /\ ~validateMDXSyntax(AssembledDocument)
  /\ call.first = Undefined
  /\ SyntaxErrors(AssembledDocument) = << >>

\* the pre-check accepted and the generator wrote a document in which the
\* Syntax family finds two errors: a heading that starts with a digit and a
\* link without a target
C24_AcceptedWithErrors ==
  /\ Assembled
  /\ call.first # Undefined
  /\ Len(SyntaxErrors(call.first)) = 2

\* the end of the tag that starts at i: the position of its ">"
TagEnd(s, i) == IndexFrom(s, i, ">")

\* an opening tag starts at i: "<", a letter, and a ">" further on that no
\* "/" precedes
OpensAt(s, i) ==
  /\ s[i] = "<"
  /\ i + 1 <= Len(s)
  /\ s[i + 1] \in Letters
  /\ TagEnd(s, i) <= Len(s)
  /\ s[TagEnd(s, i) - 1] # "/"

\* a self-closing tag starts at i
SelfClosesAt(s, i) ==
  /\ s[i] = "<"
  /\ i + 1 <= Len(s)
  /\ s[i + 1] \in Letters
  /\ TagEnd(s, i) <= Len(s)
  /\ s[TagEnd(s, i) - 1] = "/"

\* a closing tag starts at i
ClosesAt(s, i) ==
  /\ s[i] = "<"
  /\ i + 2 <= Len(s)
  /\ s[i + 1] = "/"
  /\ s[i + 2] \in Letters
  /\ TagEnd(s, i) <= Len(s)

\* the name of the tag whose name starts at i
TagName(s, i) == Slice(s, i, SkipClass(s, i, Letters \cup Digits) - 1)

\* every tag name has as many opening tags as closing tags
TagsBalanced(s) ==
  LET opens == {i \in 1..Len(s) : OpensAt(s, i)}
      closes == {i \in 1..Len(s) : ClosesAt(s, i)}
      names == {TagName(s, i + 1) : i \in opens} \cup {TagName(s, i + 2) : i \in closes}
  IN  \A n \in names :
        Cardinality({i \in opens : TagName(s, i + 1) = n})
          = Cardinality({i \in closes : TagName(s, i + 2) = n})

\* the self-closing tags of a text, in order
SelfClosingTags(s) ==
  LET starts == {i \in 1..Len(s) : SelfClosesAt(s, i)}
  IN  {Slice(s, i, TagEnd(s, i)) : i \in starts}

Sanitized == call.fn = "returned" /\ call.of = "sanitizeMDXContent"

\* the output of sanitizeMDXContent holds no unbalanced tag, whatever the
\* input body
SanitizedTagsBalanced == Sanitized => TagsBalanced(call.output)

\* C25 as stated, for the bodies it names: a body whose opening and closing
\* tags are balanced is still balanced after sanitizeMDXContent
C25_BalancedStaysBalanced ==
  (Sanitized /\ TagsBalanced(call.content)) => TagsBalanced(call.output)

\* the part of C25 that holds: the self-closing tags of the body are the
\* self-closing tags of the output
C25_SelfClosingKept ==
  (Sanitized /\ SelfClosingTags(call.content) # {})
    => SelfClosingTags(call.content) \subseteq SelfClosingTags(call.output)

\* a body whose tags are balanced, an element with text between its tags,
\* left the sanitizer with a closing tag more than it has opening tags
C25_BalancedBecameUnbalanced ==
  /\ Sanitized
  /\ TagsBalanced(call.content)
  /\ \E i \in 1..Len(call.content) : OpensAt(call.content, i)
  /\ ~TagsBalanced(call.output)

\* the position of a descriptor in the configuration
ConfigIndex(name) == CHOOSE d \in 1..Len(projects) : projects[d].id = name

\* a path of the output tree lies in the output directory of project k
InProject(path, k) ==
  LET dir == PathNormalize(selectedProjects[k].outputPath)
  IN  path = dir \/ StartsWith(path, dir \o << "/" >>)

\* the projects before the current one, and only they, are in the navigation,
\* in their order
EarlierProjectsComplete ==
  /\ Len(navigation) = cursor.j - 1
  /\ \A k \in 1..Len(navigation) : navigation[k].name = selectedProjects[k].name

DiscoveryPrecedesProcessing ==
  IF pc = "discover"
  THEN outDirs = {} /\ outFiles = NoFiles /\ navigation = << >>
  ELSE cursor.d = Len(projects) + 1

RECURSIVE Listed(_)
Listed(S) ==
  IF S = {} THEN << >>
  ELSE LET x == CHOOSE y \in S : TRUE IN << x >> \o Listed(S \ {x})

\* the corpus the Validator finds after the scan: the documents the scan
\* wrote, each at its path
WrittenCorpus ==
  LET paths == Listed(DOMAIN outFiles)
  IN  [docs |-> [k \in 1..Len(paths) |->
                   [path |-> paths[k], content |-> outFiles[paths[k]]]],
       others |-> {}]

\* every declared document of selected project k has been written
AllDeclaredWritten(k) ==
  \A t \in 1..Len(selectedProjects[k].documentTypes) :
    DocumentPath(selectedProjects[k], selectedProjects[k].documentTypes[t])
      \in DOMAIN outFiles

\* the link errors checkLinks reports for the introduction of project k
IntroductionLinkErrors(k) ==
  LET path == DocumentPath(selectedProjects[k], "introduction")
  IN  checkLinks(WrittenCorpus, outFiles[path], path).errors

\* a scan that writes is through with its projects and project k, which
\* declares an introduction, has all its declared documents
CompleteWithIntroduction(k) ==
  /\ ~dryRun
  /\ cursor.j > Len(selectedProjects)
  /\ k \in 1..Len(selectedProjects)
  /\ \E t \in 1..Len(selectedProjects[k].documentTypes) :
       selectedProjects[k].documentTypes[t] = "introduction"
  /\ AllDeclaredWritten(k)

\* C27 as stated: in a corpus in which every declared document of a project
\* was written, checkLinks reports no error for the project's introduction
C27_IntroductionLinksResolve ==
  \A k \in 1..Len(selectedProjects) :
    CompleteWithIntroduction(k) => IntroductionLinkErrors(k) = << >>

\* a project with its introduction, readme, architecture and development
\* documents all written, and one broken link reported for each of the three
\* links of its introduction
C27_AllWrittenLinksBroken ==
  \E k \in 1..Len(selectedProjects) :
    /\ CompleteWithIntroduction(k)
    /\ Len(selectedProjects[k].documentTypes) = 4
    /\ Len(IntroductionLinkErrors(k)) = 3

(***************************************************************************)
(* MintlifyContentExtractor.updateMintNavigation, called again and again   *)
(* on the mint.json of the documentation site                              *)
(***************************************************************************)

MaxNavGroups == 3

MaxCalls == 3

\* the navigation groups a mint.json holds before the extractor runs
MintGroups ==
  {[group |-> "Get Started", pages |-> << "introduction" >>],
   [group |-> "Guides", pages |-> << "quickstart", "deploy" >>],
   [group |-> "Projects", pages |-> << "projects/old" >>]}

ProjectsGroups(nav) == {k \in 1..Len(nav) : nav[k].group = "Projects"}

\* mint.json before the first call: no navigation key, or a navigation with
\* at most one group named Projects
MintConfigs ==
  {[name |-> "Docs", favicon |-> "/favicon.svg"]}
  \cup {[name |-> "Docs", favicon |-> "/favicon.svg", navigation |-> nav] :
          nav \in {n \in UNION {[1..len -> MintGroups] : len \in 0..MaxNavGroups} :
                     Cardinality(ProjectsGroups(n)) <= 1}}

\* the projects handed to a call
MintProject(name, hasReadme, hasClaudeFile) ==
  [name |-> name, slug |-> name,
   indicators |-> [hasReadme |-> hasReadme, hasClaudeFile |-> hasClaudeFile]]

MintProjectLists ==
  {<< >>,
   << MintProject("alpha", TRUE, FALSE) >>,
   << MintProject("alpha", TRUE, TRUE), MintProject("beta", FALSE, FALSE) >>}

\* the pages of one project's group
ProjectPages(project) ==
  << << "projects/", project.slug, "/introduction" >> >>
    \o (IF project.indicators.hasReadme
        THEN << << "projects/", project.slug, "/readme" >> >> ELSE << >>)
    \o (IF project.indicators.hasClaudeFile
        THEN << << "projects/", project.slug, "/development" >> >> ELSE << >>)
    \o << << "projects/", project.slug, "/architecture" >> >>

\* const projectsNav = { group: "Projects", pages: projects.map(...) }
ProjectsNav(ps) ==
  [group |-> "Projects",
   pages |-> [k \in 1..Len(ps) |->
                [group |-> ps[k].name, pages |-> ProjectPages(ps[k])]]]

\* mintConfig.navigation || []
NavigationOf(mintConfig) ==
  IF "navigation" \in DOMAIN mintConfig THEN mintConfig.navigation ELSE << >>

\* findIndex(item => item.group === "Projects"): the first such index, -1
\* (here 0) when there is none
FindProjectsIndex(nav) ==
  IF ProjectsGroups(nav) = {} THEN 0
  ELSE CHOOSE k \in ProjectsGroups(nav) : \A m \in ProjectsGroups(nav) : k <= m

\* the update made to always push the new group
PushProjects(nav, projectsNav) == Append(nav, projectsNav)

\* the navigation after the update: the Projects group replaced where it
\* is, or pushed
PlaceProjects(nav, projectsNav) ==
  IF FindProjectsIndex(nav) > 0
  THEN [nav EXCEPT ![FindProjectsIndex(nav)] = projectsNav]
  ELSE Append(nav, projectsNav)

MintColors ==
  [primary |-> "#6366f1", light |-> "#8b5cf6", dark |-> "#5b21b6",
   anchors |-> [from |-> "#6366f1", to |-> "#8b5cf6"]]

\* the configuration updateMintNavigation writes back
UpdatedMintConfig(mintConfig, ps) ==
  [key \in DOMAIN mintConfig \cup {"navigation", "name", "colors"} |->
     CASE key = "navigation" -> PlaceProjects(NavigationOf(mintConfig), ProjectsNav(ps))
       [] key = "name" -> "LostMind AI Documentation"
       [] key = "colors" -> MintColors
       [] OTHER -> mintConfig[key]]

\* mint.json as the site holds it, no call made yet; navigationFile is the
\* file, call remembers the first configuration and counts the calls
MintInit ==
  /\ dryRun = FALSE
  /\ projects = << >>
  /\ today = CHOOSE d \in Dates : TRUE
  /\ disk = [dirs |-> {}, files |-> NoFiles]
  /\ fault = NoFault
  /\ pc = "idle"
  /\ cursor = [d |-> 1, j |-> 1, t |-> 1]
  /\ selectedProjects = << >>
  /\ files = << >>
  /\ processedFiles = << >>
  /\ navigation = << >>
  /\ outDirs = {}
  /\ outFiles = NoFiles
  /\ navigationFile \in MintConfigs
  /\ summaryFile = Undefined
  /\ stats = [projectsFound |-> 0, filesProcessed |-> 0,
              errorsEncountered |-> 0, assetscopied |-> 0]
  /\ errorLog = << >>
  /\ call = [fn |-> "updateMintNavigation", original |-> navigationFile,
             calls |-> 0, written |-> 0]
  /\ ValidatorIdle

\* one call of updateMintNavigation: mint.json is read, updated and written
\* back; a failing write is caught and leaves the file as it was
UpdateMintNavigation ==
  /\ call.fn = "updateMintNavigation"
  /\ call.calls < MaxCalls
  /\ \E ps \in MintProjectLists, writeFails \in BOOLEAN :
       IF writeFails
       THEN /\ UNCHANGED navigationFile
            /\ call' = [call EXCEPT !.calls = @ + 1]
       ELSE /\ navigationFile' = UpdatedMintConfig(navigationFile, ps)
            /\ call' = [call EXCEPT !.calls = @ + 1, !.written = @ + 1]
  /\ UNCHANGED << env, pc, cursor, selectedProjects, files, processedFiles,
                  navigation, outDirs, outFiles, summaryFile, stats, errorLog,
                  validatorVars >>

MintNext == UpdateMintNavigation

MintSpec == MintInit /\ [][MintNext]_vars

\* the groups of a navigation that are not named Projects, in order
OtherGroups(nav) ==
  LET Other(g) == g.group # "Projects" IN SelectSeq(nav, Other)

\* C28: after one or more updateMintNavigation calls that wrote the
\* configuration, the navigation holds exactly one group named Projects; it
\* stands where the first configuration had its Projects group, or last
\* when it had none; and the other groups are the first configuration's,
\* unchanged and in their order
C28_OneProjectsGroup ==
  LET before == NavigationOf(call.original)
      after == NavigationOf(navigationFile)
  IN  /\ Cardinality(ProjectsGroups(after)) <= 1
      /\ OtherGroups(after) = OtherGroups(before)
      /\ call.written > 0 =>
           /\ Cardinality(ProjectsGroups(after)) = 1
           /\ Len(after) = IF ProjectsGroups(before) = {} THEN Len(before) + 1
                           ELSE Len(before)
           /\ ProjectsGroups(after) = IF ProjectsGroups(before) = {}
                                      THEN {Len(before) + 1}
                                      ELSE ProjectsGroups(before)
           /\ \A k \in 1..Len(before) :
                k \notin ProjectsGroups(before) => after[k] = before[k]

\* the second successful update of a configuration that had a Projects group
\* between two other groups: the group was replaced where it stood
C28_Witness ==
  /\ call.written >= 2
  /\ Len(NavigationOf(call.original)) = 3
  /\ ProjectsGroups(NavigationOf(call.original)) = {2}
  /\ NavigationOf(navigationFile)[2] # NavigationOf(call.original)[2]
  /\ NavigationOf(navigationFile)[2].group = "Projects"

\* a configuration without a navigation key got its Projects group
C28_PushedWitness ==
  /\ call.written > 0
  /\ "navigation" \notin DOMAIN call.original
  /\ Len(NavigationOf(navigationFile)) = 1

\* C29 as stated: the documents written for one project in a run of the
\* directory walk come from distinct source files and have distinct output
\* paths
C29_DistinctOutputPaths ==
  \A a, b \in 1..Len(processedFiles) :
    a # b => /\ processedFiles[a].path # processedFiles[b].path
             /\ processedFiles[a].outputPath # processedFiles[b].outputPath

\* the processed files whose names differ only in characters that
\* generateOutputFilename replaces
SameAfterReplacement(a, b) ==
  /\ Basename(processedFiles[a].path) # Basename(processedFiles[b].path)
  /\ processedFiles[a].outputPath = processedFiles[b].outputPath

\* two README files of one project, in different directories, were both
\* processed to the same output path: the file holds the second document
\* only, and both navigation entries will name it
C29_ReadmeOverwritten ==
  /\ pc = "files"
  /\ \E a, b \in 1..Len(processedFiles) :
       /\ a < b
       /\ Basename(processedFiles[a].path) = << "R", "E", "A", "D", "M", "E", ".", "m", "d" >>
       /\ Basename(processedFiles[b].path) = << "R", "E", "A", "D", "M", "E", ".", "m", "d" >>
       /\ processedFiles[a].path # processedFiles[b].path
       /\ processedFiles[a].outputPath = processedFiles[b].outputPath
       /\ Cardinality(DOMAIN outFiles) < Len(processedFiles)

\* names that differ only in replaced characters collide as well
C29_ReplacedNamesCollide ==
  \E a, b \in 1..Len(processedFiles) : a < b /\ SameAfterReplacement(a, b)

\* the labels classify returns over all the inputs
ReturnedLabels ==
  {classify(p, c) : p \in ClassifyPaths, c \in ClassifyContents}

\* C30 as stated: every label of the closed set is returned by classify for
\* some path and content, api-spec among them
C30_EveryLabelReturned ==
  ClassifyReturned => \A l \in LabelSet : l \in ReturnedLabels

\* what holds instead: classify returns every label but api-spec, and a
\* file the api-spec rule is written for (a .json, .yaml or .yml whose name
\* holds "api") is labelled api-reference by the filename rule before it
C30_ApiSpecShadowed ==
  ClassifyReturned =>
    /\ call.output # "api-spec"
    /\ ReturnedLabels = LabelSet \ {"api-spec"}
    /\ (/\ ToLowerCase(Extname(call.filePath)) \in {<< ".", "j", "s", "o", "n" >>, << ".", "y", "a", "m", "l" >>, << ".", "y", "m", "l" >>}
        /\ IncludesLit(ToLowerCase(Basename(call.filePath)), << "a", "p", "i" >>))
         => call.output \in {"readme", "ai-context", "changelog", "api-reference"}

\* classify was applied to api.json, the file the api-spec rule names, and
\* returned api-reference
C30_ApiJsonIsReference ==
  /\ ClassifyReturned
  /\ call.filePath = << "a", "p", "i", ".", "j", "s", "o", "n" >>
  /\ call.output = "api-reference"

=============================================================================
